---- MODULE Spec2Model ----
(***************************************************************************)
(* Model of libmobi's DRM engine (src/src/encryption.c): the PC1 cipher,   *)
(* the PID check, the DRM table parser, key recovery for encryption types  *)
(* 1 and 2+, and the key holder API (set key, delete key, decrypt).        *)
(*                                                                         *)
(* Byte buffers are sequences of 0..255 (index 1 is C index 0).  A null    *)
(* pointer is the value NULL.  uintN_t arithmetic is taken modulo 2^N.     *)
(***************************************************************************)
EXTENDS Integers, Sequences, FiniteSets

VARIABLES
    book,       \* the loaded document (MOBIData *m), an index into Books
    drm_key,    \* m->drm_key: NULL or the 16 bytes of the stored key
    op,         \* the last call made on the handle
    pid_arg,    \* its pid argument (mobi_drm_setkey_internal; NULL otherwise)
    fail_arg,   \* the allocation that failed during it
    in_arg,     \* its in argument (mobi_decrypt; NULL otherwise)
    ret,        \* the status it returned
    out,        \* the bytes it wrote to its out argument
    line,       \* the line of encryption.c it returned at
    visited,    \* the number of DRM descriptors it visited
    prev,       \* op, pid_arg, ret and drm_key as they were before the last call
    stored_since, \* a set_key call on an encrypted document has returned
                \* SUCCESS since the last delete_key call (or since load)
    pk_key,     \* cipher runs: the caller's key
    pk_plain,   \* the plaintext
    pk_cipher,  \* the output of mobi_pk1_encrypt
    pk_back,    \* the output of mobi_pk1_decrypt
    pk_stage,   \* how far the run has got
    call,       \* single calls: the function called and its arguments
    result,     \* what it returned and wrote ([fn |-> "none"] before the call)
    shared,     \* concurrent calls: the memory the calls share
    threads,    \* the arguments, locals and position of each call
    frame,      \* key recovery by steps: the arguments, locals and position
                \* of a call of mobi_drm_getkey_v2
    heap        \* the objects it has allocated, and what became of them

hvars  == <<book, drm_key, op, pid_arg, fail_arg, in_arg, ret, out, line, visited,
            prev, stored_since>>
pkvars == <<pk_key, pk_plain, pk_cipher, pk_back, pk_stage>>
fnvars == <<call, result>>
stepvars == <<shared, threads, frame, heap>>
vars   == <<book, drm_key, op, pid_arg, fail_arg, in_arg, ret, out, line, visited,
            prev, stored_since,
            pk_key, pk_plain, pk_cipher, pk_back, pk_stage,
            call, result,
            shared, threads, frame, heap>>

(***************************************************************************)
(* Constants of the program                                                *)
(***************************************************************************)
PIDSIZE == 10
KEYSIZE == 16
COOKIESIZE == 32
MOBI_NOTSET == <<65535, 65535>>
KEYVEC1 == <<114, 56, 51, 176, 180, 242, 227, 202, 223, 9, 1, 214, 226, 224, 63, 150>>
\* "QDCVEPMU675RUBSZ"
KEYVEC1_V1 == <<81, 68, 67, 86, 69, 80, 77, 85, 54, 55, 53, 82, 85, 66, 83, 90>>

NULL == <<-1>>

W16 == 65536

(***************************************************************************)
(* The C operator ^ on unsigned values.  XorNibble[a, b] is a ^ b for two  *)
(* 4-bit values; wider values are combined nibble by nibble.               *)
(***************************************************************************)
RECURSIVE XorBits(_, _)
XorBits(a, b) ==
    IF a = 0 THEN b
    ELSE IF b = 0 THEN a
    ELSE (2 * XorBits(a \div 2, b \div 2)) + ((a + b) % 2)

XorNibble == [a \in 0..15, b \in 0..15 |-> XorBits(a, b)]

\* a ^ b for uint8_t values
Xor8(a, b) ==
    XorNibble[a \div 16, b \div 16] * 16 + XorNibble[a % 16, b % 16]

\* a ^ b for uint16_t values
Xor(a, b) ==
    Xor8(a \div 256, b \div 256) * 256 + Xor8(a % 256, b % 256)

(***************************************************************************)
(* PC1 state: calloc(1, sizeof(PK1))                                       *)
(***************************************************************************)
PK1Zero == [si |-> 0, x1a2 |-> 0, x1a0 |-> <<0, 0, 0, 0, 0, 0, 0, 0>>]

\* pk1_code without ax += 1
pk1_code_noinc(pk1, i) ==
    LET dx0 == (pk1.x1a2 + i) % W16
        ax3 == IF dx0 # 0 THEN (dx0 * 20021) % W16 ELSE dx0
        ax5 == (346 * pk1.x1a0[i + 1]) % W16
        dx7 == (pk1.si + ((ax3 + ax5) % W16)) % W16
        ax7 == (pk1.x1a0[i + 1] * 20021) % W16
    IN  [pk1 |-> [si |-> ax5, x1a2 |-> dx7,
                  x1a0 |-> [pk1.x1a0 EXCEPT ![i + 1] = ax7]],
         val |-> Xor(ax7, dx7)]

\* uint16_t pk1_code(PK1 *pk1, const uint8_t i): the new state and the value
\* returned.  x1a0[i] of the code is x1a0[i + 1] here.
pk1_code(pk1, i) ==
    LET dx0 == (pk1.x1a2 + i) % W16
        ax0 == pk1.x1a0[i + 1]
        cx0 == 346                     \* 0x015a
        bx  == 20021                   \* 0x4e35
        \* pk1_swap(ax, pk1->si)
        ax1 == pk1.si
        si1 == ax0
        \* pk1_swap(ax, dx)
        ax2 == dx0
        dx2 == ax1
        \* if (ax) { ax *= bx; }
        ax3 == IF ax2 # 0 THEN (ax2 * bx) % W16 ELSE ax2
        \* pk1_swap(ax, cx)
        ax4 == cx0
        cx4 == ax3
        \* if (ax) { ax *= pk1->si; cx += ax; }
        ax5 == IF ax4 # 0 THEN (ax4 * si1) % W16 ELSE ax4
        cx5 == IF ax4 # 0 THEN (cx4 + ax5) % W16 ELSE cx4
        \* pk1_swap(ax, pk1->si)
        ax6 == si1
        si6 == ax5
        ax7 == (ax6 * bx) % W16
        dx7 == (dx2 + cx5) % W16
        ax8 == (ax7 + 1) % W16
    IN  [pk1 |-> [si |-> si6, x1a2 |-> dx7,
                  x1a0 |-> [pk1.x1a0 EXCEPT ![i + 1] = ax8]],
         val |-> Xor(ax8, dx7)]

\* The products and sums of pk1_code as the int values they have before the
\* conversion to uint16_t, in the order of the code: x1a2 + i (line 55),
\* ax * bx (61), ax * si (64), cx + ax (65), ax * bx (68), dx + cx (69) and
\* ax + 1 (70).  A product that its test skips is given as 0.
pk1_code_wide(pk1, i) ==
    LET dx0 == (pk1.x1a2 + i) % W16
        si1 == pk1.x1a0[i + 1]
        ax2 == dx0
        dx2 == pk1.si
        ax3 == IF ax2 # 0 THEN (ax2 * 20021) % W16 ELSE ax2
        ax4 == 346
        cx4 == ax3
        ax5 == IF ax4 # 0 THEN (ax4 * si1) % W16 ELSE ax4
        cx5 == IF ax4 # 0 THEN (cx4 + ax5) % W16 ELSE cx4
        ax7 == (si1 * 20021) % W16
    IN  <<pk1.x1a2 + i,
          IF ax2 # 0 THEN ax2 * 20021 ELSE 0,
          IF ax4 # 0 THEN ax4 * si1 ELSE 0,
          IF ax4 # 0 THEN cx4 + ax5 ELSE 0,
          si1 * 20021,
          dx2 + cx5,
          ax7 + 1>>

\* The loop of pk1_assemble from iteration i on; acc is [pk1, val] so far:
\* x1a0[i] = x1a0[i - 1] ^ (key[2i] * 256 + key[2i + 1]), then
\* inter ^= pk1_code(pk1, i).  The test acc = acc makes the evaluation of
\* the rounds before i strict.
RECURSIVE pk1_assemble_loop(_, _, _)
pk1_assemble_loop(acc, key, i) ==
    IF acc = acc /\ i >= KEYSIZE \div 2 THEN acc
    ELSE pk1_assemble_loop(
             [pk1_code([acc.pk1 EXCEPT !.x1a0[i + 1] =
                            Xor(acc.pk1.x1a0[i],
                                (key[i * 2 + 1] * 256 + key[i * 2 + 2]) % W16)],
                       i)
                 EXCEPT !.val = Xor(acc.val, @)],
             key, i + 1)

\* uint16_t pk1_assemble(PK1 *pk1, const unsigned char key[KEYSIZE])
pk1_assemble(pk1, key) ==
    pk1_assemble_loop(
        pk1_code([pk1 EXCEPT !.x1a0[1] = (key[1] * 256 + key[2]) % W16], 0),
        key, 1)

\* for (i = 0; i < KEYSIZE; i++) key[i] ^= c;
KeyFold(key, c) == [i \in 1..KEYSIZE |-> Xor8(key[i], c)]

\* pk1_decrypt_byte with the working key folded with the ciphertext byte
pk1_decrypt_byte_foldin(st, cin) ==
    LET Emit(pk1, c) ==
            [pk1 |-> pk1, key |-> KeyFold(st.key, cin), out |-> Append(st.out, c)]
        Step(a) == Emit(a.pk1, Xor8(cin, Xor8(a.val \div 256, a.val % 256)))
    IN  Step(pk1_assemble(st.pk1, st.key))

\* One pass of the while loop of mobi_pk1_decrypt; st is [pk1, key, out].
\* With a = [pk1, val] from pk1_assemble: cfc = val >> 8, cfd = val & 0xff,
\* c = *in ^ (cfc ^ cfd), the key is folded with c, and c is written.
pk1_decrypt_byte(st, cin) ==
    LET Emit(pk1, c) ==
            [pk1 |-> pk1, key |-> KeyFold(st.key, c), out |-> Append(st.out, c)]
        Step(a) == Emit(a.pk1, Xor8(cin, Xor8(a.val \div 256, a.val % 256)))
    IN  Step(pk1_assemble(st.pk1, st.key))

\* One pass of the while loop of mobi_pk1_encrypt: the key is folded with
\* the input byte c, and c ^ (cfc ^ cfd) is written.
pk1_encrypt_byte(st, cin) ==
    LET Emit(pk1, c) ==
            [pk1 |-> pk1, key |-> KeyFold(st.key, cin), out |-> Append(st.out, c)]
        Step(a) == Emit(a.pk1, Xor8(cin, Xor8(a.val \div 256, a.val % 256)))
    IN  Step(pk1_assemble(st.pk1, st.key))

\* The while loops, from byte n of in on; the test st = st makes the
\* evaluation of the bytes before n strict.
RECURSIVE pk1_decrypt_loop(_, _, _)
pk1_decrypt_loop(st, in, n) ==
    IF st = st /\ n > Len(in) THEN st
    ELSE pk1_decrypt_loop(pk1_decrypt_byte(st, in[n]), in, n + 1)

RECURSIVE pk1_encrypt_loop(_, _, _)
pk1_encrypt_loop(st, in, n) ==
    IF st = st /\ n > Len(in) THEN st
    ELSE pk1_encrypt_loop(pk1_encrypt_byte(st, in[n]), in, n + 1)

\* mobi_pk1_decrypt taking the bytes of in from the last to the first
mobi_pk1_decrypt_backward(in, key) ==
    LET Reverse(s) == [k \in 1..Len(s) |-> s[Len(s) + 1 - k]]
        Done(st) == [ret |-> "SUCCESS", out |-> Reverse(st.out)]
    IN  IF in = NULL THEN [ret |-> "INIT_FAILED", out |-> <<>>]
        ELSE Done(pk1_decrypt_loop([pk1 |-> PK1Zero, key |-> key, out |-> <<>>],
                                   Reverse(in), 1))

\* mobi_pk1_decrypt(out, in, length, key) with length = Len(in) and a
\* non-null out: the status and the bytes written to out.
mobi_pk1_decrypt(in, key) ==
    IF in = NULL THEN [ret |-> "INIT_FAILED", out |-> <<>>]
    ELSE [ret |-> "SUCCESS",
          out |-> pk1_decrypt_loop([pk1 |-> PK1Zero, key |-> key, out |-> <<>>],
                                   in, 1).out]

\* mobi_pk1_encrypt(out, in, length, key), likewise.
mobi_pk1_encrypt(in, key) ==
    IF in = NULL THEN [ret |-> "INIT_FAILED", out |-> <<>>]
    ELSE [ret |-> "SUCCESS",
          out |-> pk1_encrypt_loop([pk1 |-> PK1Zero, key |-> key, out |-> <<>>],
                                   in, 1).out]

(***************************************************************************)
(* The same two functions on memory.  mem is the bytes of the address      *)
(* space, the byte at address a being mem[a + 1]; outp, in and key are     *)
(* the addresses passed, none of them null.  The local array (key_copy,    *)
(* k) is not part of mem.                                                  *)
(***************************************************************************)
\* One pass of the while loop of mobi_pk1_decrypt with *in at address in and
\* *out at address outp; st is [pk1, key_copy, mem].
pk1_decrypt_pass(st, in, outp) ==
    LET Emit(pk1, c) ==
            [pk1 |-> pk1, key_copy |-> KeyFold(st.key_copy, c),
             mem |-> [st.mem EXCEPT ![outp + 1] = c]]
        Step(a) == Emit(a.pk1, Xor8(st.mem[in + 1], Xor8(a.val \div 256, a.val % 256)))
    IN  Step(pk1_assemble(st.pk1, st.key_copy))

\* pk1_encrypt_pass folding the key with *in read again after *out is written
pk1_encrypt_pass_reread(st, in, outp) ==
    LET Fold(pk1, written) ==
            [pk1 |-> pk1, key_copy |-> KeyFold(st.key_copy, written[in + 1]),
             mem |-> written]
        Emit(pk1, c, x) == Fold(pk1, [st.mem EXCEPT ![outp + 1] = Xor8(c, x)])
        Step(a) == Emit(a.pk1, st.mem[in + 1], Xor8(a.val \div 256, a.val % 256))
    IN  Step(pk1_assemble(st.pk1, st.key_copy))

\* One pass of the while loop of mobi_pk1_encrypt: c = *in++ is read, k is
\* folded with it, and c ^ (cfc ^ cfd) is written to *out++.  The local
\* array k is the field key_copy of st.
pk1_encrypt_pass(st, in, outp) ==
    LET Emit(pk1, c, x) ==
            [pk1 |-> pk1, key_copy |-> KeyFold(st.key_copy, c),
             mem |-> [st.mem EXCEPT ![outp + 1] = Xor8(c, x)]]
        Step(a) == Emit(a.pk1, st.mem[in + 1], Xor8(a.val \div 256, a.val % 256))
    IN  Step(pk1_assemble(st.pk1, st.key_copy))

\* while (length--), with in and out advancing
RECURSIVE pk1_decrypt_mem_loop(_, _, _, _)
pk1_decrypt_mem_loop(st, in, outp, length) ==
    IF st = st /\ length = 0 THEN st
    ELSE pk1_decrypt_mem_loop(pk1_decrypt_pass(st, in, outp), in + 1, outp + 1,
                              length - 1)

RECURSIVE pk1_encrypt_mem_loop(_, _, _, _)
pk1_encrypt_mem_loop(st, in, outp, length) ==
    IF st = st /\ length = 0 THEN st
    ELSE pk1_encrypt_mem_loop(pk1_encrypt_pass(st, in, outp), in + 1, outp + 1,
                              length - 1)

\* mobi_pk1_decrypt_mem working on the caller's key instead of a copy of it
mobi_pk1_decrypt_mem_nocopy(mem, outp, in, length, key) ==
    LET Done(st) ==
            [ret |-> "SUCCESS",
             mem |-> [a \in DOMAIN st.mem |->
                         IF key < a /\ a <= key + KEYSIZE
                         THEN st.key_copy[a - key] ELSE st.mem[a]]]
    IN  Done(pk1_decrypt_mem_loop(
                 [pk1 |-> PK1Zero, key_copy |-> SubSeq(mem, key + 1, key + KEYSIZE),
                  mem |-> mem],
                 in, outp, length))

\* mobi_pk1_decrypt(out, in, length, key): the status and the memory after
\* the call.  memcpy(key_copy, key, KEYSIZE) reads the key; the loop writes
\* to key_copy and through out only.
mobi_pk1_decrypt_mem(mem, outp, in, length, key) ==
    LET Done(st) == [ret |-> "SUCCESS", mem |-> st.mem]
    IN  Done(pk1_decrypt_mem_loop(
                 [pk1 |-> PK1Zero, key_copy |-> SubSeq(mem, key + 1, key + KEYSIZE),
                  mem |-> mem],
                 in, outp, length))

\* mobi_pk1_encrypt(out, in, length, key), likewise
mobi_pk1_encrypt_mem(mem, outp, in, length, key) ==
    LET Done(st) == [ret |-> "SUCCESS", mem |-> st.mem]
    IN  Done(pk1_encrypt_mem_loop(
                 [pk1 |-> PK1Zero, key_copy |-> SubSeq(mem, key + 1, key + KEYSIZE),
                  mem |-> mem],
                 in, outp, length))

(***************************************************************************)
(* uint32_t values are pairs <<high 16 bits, low 16 bits>>                 *)
(***************************************************************************)
U32(n) == <<n \div W16, n % W16>>

\* a + b in uint32_t arithmetic
Add32(a, b) ==
    LET lo == a[2] + b[2]
        hi == a[1] + b[1] + (lo \div W16)
    IN  <<hi % W16, lo % W16>>

\* (size_t) a > n, for a uint32_t a and a size n below 2^31
Gt32(a, n) ==
    \/ a[1] > n \div W16
    \/ a[1] = n \div W16 /\ a[2] > n % W16

\* ~a
Not32(a) == <<65535 - a[1], 65535 - a[2]>>

\* the value of a uint32_t known to be below 2^31
Val32(a) == a[1] * W16 + a[2]

(***************************************************************************)
(* m_crc32 (util.c): the CRC-32 of zlib, polynomial 0xedb88320, started    *)
(* from crc and returning the running value                                *)
(***************************************************************************)
\* one bit of the shift register: c = (c & 1) ? (c >> 1) ^ 0xedb88320 : c >> 1
crc32_bit(c) ==
    LET hi == c[1] \div 2
        lo == (c[2] \div 2) + (c[1] % 2) * 32768
    IN  IF c[2] % 2 = 1 THEN <<Xor(hi, 60856), Xor(lo, 33568)>> ELSE <<hi, lo>>

crc32_byte(c, b) ==
    LET c0 == <<c[1], Xor(c[2], b)>>
    IN  crc32_bit(crc32_bit(crc32_bit(crc32_bit(
        crc32_bit(crc32_bit(crc32_bit(crc32_bit(c0))))))))

\* the test c = c makes the evaluation of the bytes before n strict
RECURSIVE crc32_loop(_, _, _)
crc32_loop(c, buf, n) ==
    IF c = c /\ n > Len(buf) THEN c
    ELSE crc32_loop(crc32_byte(c, buf[n]), buf, n + 1)

m_crc32(crc, buf) == Not32(crc32_loop(Not32(crc), buf, 1))

(***************************************************************************)
(* PID verification                                                        *)
(***************************************************************************)
\* char map[] = "ABCDEFGHIJKLMNPQRSTUVWXYZ123456789"
pid_map ==
    <<65, 66, 67, 68, 69, 70, 71, 72, 73, 74, 75, 76, 77, 78,
      80, 81, 82, 83, 84, 85, 86, 87, 88, 89, 90,
      49, 50, 51, 52, 53, 54, 55, 56, 57>>

\* sizeof(map) - 1
map_length == Len(pid_map)

\* pid_char dividing by one less than the length of the map
pid_char_short(b) ==
    LET pos == Xor8(b \div (map_length - 1), b % (map_length - 1))
    IN  pid_map[(pos % (map_length - 1)) + 1]

\* the checksum character computed from byte b of the folded crc
pid_char(b) ==
    LET pos == Xor8(b \div map_length, b % map_length)
    IN  pid_map[(pos % map_length) + 1]

\* the two checksum characters of the first PIDSIZE - 2 bytes of pid:
\* crc = ~m_crc32(0xffffffff, pid, PIDSIZE - 2); crc ^= (crc >> 16); then
\* one character from each of the two low bytes of crc
pid_checksum(pid) ==
    LET Chars(lo) == <<pid_char(lo % 256), pid_char((lo \div 256) % 256)>>
        Fold(crc) == Chars(Xor(crc[2], crc[1]))
    IN  Fold(Not32(m_crc32(MOBI_NOTSET, SubSeq(pid, 1, PIDSIZE - 2))))

\* the low 16 bits of crc after crc ^= (crc >> 16): the two bytes the
\* checksum characters are computed from
pid_crc(pid) ==
    LET Fold(crc) == Xor(crc[2], crc[1])
    IN  Fold(Not32(m_crc32(MOBI_NOTSET, SubSeq(pid, 1, PIDSIZE - 2))))

\* mobi_drm_pidverify with the result of memcmp taken the wrong way round
mobi_drm_pidverify_inverted(pid) ==
    IF pid_checksum(pid) # SubSeq(pid, 9, 10) THEN "SUCCESS" ELSE "DRM_PIDINV"

\* static MOBI_RET mobi_drm_pidverify(const unsigned char *pid)
mobi_drm_pidverify(pid) ==
    IF pid_checksum(pid) = SubSeq(pid, 9, 10) THEN "SUCCESS" ELSE "DRM_PIDINV"

(***************************************************************************)
(* MOBIBuffer (buffer.c): a cursor over Record 0.  A buffer is             *)
(* [offset, data]; maxlen is Len(data).  A read past the end fails and     *)
(* leaves the cursor where it was.                                         *)
(***************************************************************************)
\* buffer_init_null(rec->size); buf->data = rec->data
buffer_init_null(data) == [offset |-> 0, data |-> data]

\* buffer_setpos(buf, pos) for a uint32_t pos
buffer_setpos(buf, pos) ==
    IF Gt32(pos, Len(buf.data)) THEN buf
    ELSE [buf EXCEPT !.offset = Val32(pos)]

\* buffer_get32(buf): the big-endian uint32_t at the cursor, 0 past the end
buffer_get32(buf) ==
    IF buf.offset + 4 > Len(buf.data)
    THEN [buf |-> buf, val |-> <<0, 0>>]
    ELSE [buf |-> [buf EXCEPT !.offset = buf.offset + 4],
          val |-> <<buf.data[buf.offset + 1] * 256 + buf.data[buf.offset + 2],
                    buf.data[buf.offset + 3] * 256 + buf.data[buf.offset + 4]>>]

\* buffer_get8(buf)
buffer_get8(buf) ==
    IF buf.offset + 1 > Len(buf.data)
    THEN [buf |-> buf, val |-> 0]
    ELSE [buf |-> [buf EXCEPT !.offset = buf.offset + 1],
          val |-> buf.data[buf.offset + 1]]

\* buffer_seek(buf, diff) for diff >= 0
buffer_seek(buf, diff) ==
    IF buf.offset + diff <= Len(buf.data)
    THEN [buf EXCEPT !.offset = buf.offset + diff]
    ELSE buf

\* buffer_getpointer(buf, len): the len bytes at the cursor, NULL past the end
buffer_getpointer(buf, len) ==
    IF buf.offset + len > Len(buf.data)
    THEN [buf |-> buf, val |-> NULL]
    ELSE [buf |-> [buf EXCEPT !.offset = buf.offset + len],
          val |-> SubSeq(buf.data, buf.offset + 1, buf.offset + len)]

\* buffer_getraw(data, buf, len), for len bytes that lie within the buffer
buffer_getraw(buf, len) ==
    SubSeq(buf.data, buf.offset + 1, buf.offset + len)

(***************************************************************************)
(* DRM record table of Record 0                                            *)
(*                                                                         *)
(* A document m is a record: rh, ph, mh tell whether the Record 0 header,  *)
(* the PalmDOC header and the MOBI header are present; the other fields    *)
(* are the header fields the DRM engine reads, and rec is Record 0.        *)
(* fail names the allocation that fails during the call ("none" if all     *)
(* succeed).                                                               *)
(***************************************************************************)
\* The for loop of mobi_drm_parse for entries i .. count - 1; acc is
\* [buf, drm] so far.  An allocation failure gives up with 0 entries.  Each
\* read gives [buf, val]: v, s, t, c and k are the reads of verification,
\* size, type, checksum and cookie.  The test acc = acc makes the evaluation
\* of the entries before i strict.
RECURSIVE drm_parse_loop(_, _, _, _)
drm_parse_loop(acc, i, count, fail) ==
    IF acc = acc /\ i >= count THEN [count |-> count, drm |-> acc.drm]
    ELSE IF fail = "parse_entry" /\ i = count - 1
    THEN [count |-> 0, drm |-> acc.drm]
    ELSE LET Entry(v, s, t, c, k) ==
                 drm_parse_loop(
                     [buf |-> k.buf,
                      drm |-> Append(acc.drm,
                                     [verification |-> v.val, size |-> s.val,
                                      type |-> t.val, checksum |-> c.val,
                                      cookie |-> k.val])],
                     i + 1, count, fail)
             Cookie(v, s, t, c) ==
                 Entry(v, s, t, c,
                       buffer_getpointer(buffer_seek(c.buf, 3), COOKIESIZE))
             Checksum(v, s, t) == Cookie(v, s, t, buffer_get8(t.buf))
             Type(v, s) == Checksum(v, s, buffer_get32(s.buf))
             Size(v) == Type(v, buffer_get32(v.buf))
         IN  Size(buffer_get32(acc.buf))

\* static size_t mobi_drm_parse(MOBIDrm **drm, const MOBIData *m):
\* the number of records parsed and the records
mobi_drm_parse(m, fail) ==
    IF ~m.mh THEN [count |-> 0, drm |-> <<>>]
    ELSE IF m.drm_offset = MOBI_NOTSET \/ m.drm_count = 0
    THEN [count |-> 0, drm |-> <<>>]
    ELSE IF fail = "parse_buf" THEN [count |-> 0, drm |-> <<>>]
    ELSE IF Gt32(Add32(m.drm_offset, m.drm_size), Len(m.rec))
    THEN [count |-> 0, drm |-> <<>>]
    ELSE drm_parse_loop([buf |-> buffer_setpos(buffer_init_null(m.rec),
                                               m.drm_offset),
                         drm |-> <<>>],
                        0, m.drm_count, fail)

RECURSIVE SumBytes(_, _)
SumBytes(key, n) == IF n = 0 THEN 0 ELSE SumBytes(key, n - 1) + key[n]

\* mobi_drm_keychecksum returning the sum without the cast to uint8_t
mobi_drm_keychecksum_wide(key) == SumBytes(key, KEYSIZE)

\* static uint8_t mobi_drm_keychecksum(const unsigned char key[KEYSIZE])
mobi_drm_keychecksum(key) == SumBytes(key, KEYSIZE) % 256

\* mobi_drm_verify without the comparison of the verification words
mobi_drm_verify_flagsonly(drm_verification, cookie) ==
    LET flags == <<cookie[5] * 256 + cookie[6], cookie[7] * 256 + cookie[8]>>
    IN  (flags[2] % 32) # 0

\* mobi_drm_verify accepting only the flags whose low five bits are 00001
mobi_drm_verify_flag1(drm_verification, cookie) ==
    LET verification == <<cookie[1] * 256 + cookie[2], cookie[3] * 256 + cookie[4]>>
        flags        == <<cookie[5] * 256 + cookie[6], cookie[7] * 256 + cookie[8]>>
    IN  verification = drm_verification /\ (flags[2] % 32) = 1

\* static bool mobi_drm_verify(drm_verification, cookie)
mobi_drm_verify(drm_verification, cookie) ==
    LET verification == <<cookie[1] * 256 + cookie[2], cookie[3] * 256 + cookie[4]>>
        flags        == <<cookie[5] * 256 + cookie[6], cookie[7] * 256 + cookie[8]>>
    IN  verification = drm_verification /\ (flags[2] % 32) # 0

\* getkey_v2_loop without the return on acceptance: the last descriptor
\* accepted gives the key
RECURSIVE getkey_v2_loop_last(_, _, _, _, _)
getkey_v2_loop_last(drm, i, tempkey, tempkey_checksum, keyvec1_checksum) ==
    IF i > Len(drm)
    THEN [ret |-> "DRM_KEYNOTFOUND", key |-> NULL, visited |-> Len(drm)]
    ELSE LET Later(rest, d) ==
                 IF rest.ret = "SUCCESS" THEN rest
                 ELSE IF d.ret # "SUCCESS"
                 THEN [ret |-> d.ret, key |-> NULL, visited |-> i]
                 ELSE IF mobi_drm_verify(drm[i].verification, d.out)
                 THEN [ret |-> "SUCCESS", key |-> SubSeq(d.out, 9, 8 + KEYSIZE),
                       visited |-> Len(drm)]
                 ELSE rest
             Try(d) ==
                 Later(getkey_v2_loop_last(drm, i + 1, tempkey, tempkey_checksum,
                                           keyvec1_checksum), d)
         IN  IF drm[i].checksum = tempkey_checksum
             THEN Try(mobi_pk1_decrypt(drm[i].cookie, tempkey))
             ELSE IF drm[i].checksum = keyvec1_checksum
             THEN Try(mobi_pk1_decrypt(drm[i].cookie, KEYVEC1))
             ELSE getkey_v2_loop_last(drm, i + 1, tempkey, tempkey_checksum,
                                      keyvec1_checksum)

\* The for loop of mobi_drm_getkey_v2 from descriptor i (counted from 1) on:
\* the status, the key found, and the number of descriptors visited.  Try(d)
\* is what both branches do with the decrypted cookie d: return the status
\* of a failed decryption, return the key at cookie[8] if the cookie
\* verifies, and go on to the next descriptor otherwise.
RECURSIVE getkey_v2_loop(_, _, _, _, _)
getkey_v2_loop(drm, i, tempkey, tempkey_checksum, keyvec1_checksum) ==
    IF i > Len(drm)
    THEN [ret |-> "DRM_KEYNOTFOUND", key |-> NULL, visited |-> Len(drm)]
    ELSE LET Try(d) ==
                 IF d.ret # "SUCCESS"
                 THEN [ret |-> d.ret, key |-> NULL, visited |-> i]
                 ELSE IF mobi_drm_verify(drm[i].verification, d.out)
                 THEN [ret |-> "SUCCESS", key |-> SubSeq(d.out, 9, 8 + KEYSIZE),
                       visited |-> i]
                 ELSE getkey_v2_loop(drm, i + 1, tempkey, tempkey_checksum,
                                     keyvec1_checksum)
         IN  IF drm[i].checksum = tempkey_checksum
             THEN Try(mobi_pk1_decrypt(drm[i].cookie, tempkey))
             ELSE IF drm[i].checksum = keyvec1_checksum
             THEN Try(mobi_pk1_decrypt(drm[i].cookie, KEYVEC1))
             ELSE getkey_v2_loop(drm, i + 1, tempkey, tempkey_checksum,
                                 keyvec1_checksum)

\* static MOBI_RET mobi_drm_getkey_v2(key, pid, m): the status and, on
\* success, the 16 bytes written to key.  t is the result of encrypting the
\* PID without its checksum characters, tempkey its output, parsed the
\* result of mobi_drm_parse.  Line 280 reads *m->mh->drm_count for the size
\* of the pointer array before anything tests m->mh: without a MOBI header
\* the read is through a null pointer and the call does not return, which
\* the status "SIGSEGV" stands for.
mobi_drm_getkey_v2(pid, m, fail) ==
    LET Search(parsed, tempkey) ==
            getkey_v2_loop(SubSeq(parsed.drm, 1, parsed.count), 1, tempkey,
                           mobi_drm_keychecksum(tempkey),
                           mobi_drm_keychecksum(KEYVEC1))
        Encrypted(t) ==
            IF t.ret # "SUCCESS" THEN [ret |-> t.ret, key |-> NULL, visited |-> 0]
            ELSE IF ~m.mh
            THEN [ret |-> "SIGSEGV", key |-> NULL, visited |-> 0]
            ELSE IF fail = "drm_array"
            THEN [ret |-> "MALLOC_FAILED", key |-> NULL, visited |-> 0]
            ELSE Search(mobi_drm_parse(m, fail), t.out)
    IN  Encrypted(mobi_pk1_encrypt(
            SubSeq(pid, 1, PIDSIZE - 2) \o <<0, 0, 0, 0, 0, 0, 0, 0>>, KEYVEC1))

\* mobi_drm_getkey_v1 with || for && in the test of type and creator
mobi_drm_getkey_v1_or(m) ==
    IF ~m.ph THEN [ret |-> "DATA_CORRUPT", key |-> NULL, visited |-> 0]
    ELSE LET Got(d) ==
                 [ret |-> d.ret, key |-> IF d.ret = "SUCCESS" THEN d.out ELSE NULL,
                  visited |-> 0]
             Read(buf) ==
                 Got(mobi_pk1_decrypt(buffer_getraw(buf, KEYSIZE), KEYVEC1_V1))
         IN  IF m.ph_type = "TEXt" \/ m.ph_creator = "REAd"
             THEN Read(buffer_setpos(buffer_init_null(m.rec), U32(14)))
             ELSE IF ~m.mh \/ m.version = NULL \/ m.version = MOBI_NOTSET
             THEN Read(buffer_setpos(buffer_init_null(m.rec), U32(144)))
             ELSE Read(buffer_setpos(buffer_init_null(m.rec),
                                     Add32(m.header_length, U32(16))))

\* MOBI_RET mobi_drm_getkey_v1(unsigned char key[KEYSIZE], const MOBIData *m).
\* Read(buf) is what follows the choice of the position: KEYSIZE bytes are
\* read at the cursor and decrypted under KEYVEC1_V1.
mobi_drm_getkey_v1(m) ==
    IF ~m.ph THEN [ret |-> "DATA_CORRUPT", key |-> NULL, visited |-> 0]
    ELSE LET Got(d) ==
                 [ret |-> d.ret, key |-> IF d.ret = "SUCCESS" THEN d.out ELSE NULL,
                  visited |-> 0]
             Read(buf) ==
                 Got(mobi_pk1_decrypt(buffer_getraw(buf, KEYSIZE), KEYVEC1_V1))
         IN  IF m.ph_type = "TEXt" /\ m.ph_creator = "REAd"
             THEN Read(buffer_setpos(buffer_init_null(m.rec), U32(14)))
             ELSE IF ~m.mh \/ m.version = NULL \/ m.version = MOBI_NOTSET
             THEN Read(buffer_setpos(buffer_init_null(m.rec), U32(144)))
             ELSE Read(buffer_setpos(buffer_init_null(m.rec),
                                     Add32(m.header_length, U32(16))))

\* static MOBI_RET mobi_drm_getkey(key, pid, m)
mobi_drm_getkey(pid, m, fail) ==
    IF m.rh /\ m.encryption_type = 1 THEN mobi_drm_getkey_v1(m)
    ELSE IF pid[1] = 0 THEN [ret |-> "INIT_FAILED", key |-> NULL, visited |-> 0]
    ELSE mobi_drm_getkey_v2(pid, m, fail)

(***************************************************************************)
(* Documents.  The loader is outside the engine; the documents a handle    *)
(* can hold are the ones below.  In each of them Record 0 is long enough   *)
(* for the v1 key offset its headers select, a MOBI header is present when *)
(* encryption_type > 1, and drm_size is 48 bytes per descriptor unless     *)
(* stated.  Record 0 is missing (m->rec is NULL) in one of them, whose     *)
(* headers keep the engine from reading it.                                *)
(***************************************************************************)
Ascii12345678 == <<49, 50, 51, 52, 53, 54, 55, 56>>
AsciiABCDEFGH == <<65, 66, 67, 68, 69, 70, 71, 72>>
AsciiA1B2C3D4 == <<65, 49, 66, 50, 67, 51, 68, 52>>

\* three PIDs with the checksum characters of their first eight
PidA == Ascii12345678 \o <<69, 76>>     \* "12345678EL"
PidB == AsciiABCDEFGH \o <<72, 65>>     \* "ABCDEFGHHA"
PidC == AsciiA1B2C3D4 \o <<54, 75>>     \* "A1B2C3D46K"

\* a fourth one, whose device key has the key checksum of KEYVEC1
AsciiKINDLEA4 == <<75, 73, 78, 68, 76, 69, 65, 52>>
PidD == AsciiKINDLEA4 \o <<74, 76>>     \* "KINDLEA4JL"

\* the key a device with this PID decrypts its cookie with
DeviceKey(pid) ==
    mobi_pk1_encrypt(SubSeq(pid, 1, 8) \o <<0, 0, 0, 0, 0, 0, 0, 0>>, KEYVEC1).out

BookKeyA1 == <<1, 2, 3, 4, 5, 6, 7, 8, 9, 10, 11, 12, 13, 14, 15, 16>>
BookKeyA2 == <<255, 254, 253, 252, 251, 250, 249, 248, 247, 246, 245, 244, 243, 242, 241, 240>>
BookKeyC  == <<16, 32, 48, 64, 80, 96, 112, 128, 144, 160, 176, 192, 208, 224, 240, 0>>
BookKeyV1 == <<90, 0, 90, 1, 90, 2, 90, 3, 90, 4, 90, 5, 90, 6, 90, 7>>
BookKeyN  == <<78, 1, 78, 2, 78, 3, 78, 5, 78, 8, 78, 13, 78, 21, 78, 34>>

\* n bytes that differ from place to place
Filler(n) == [i \in 1..n |-> (i * 37 + 11) % 256]

\* rec with bytes written at offset off
Splice(rec, off, bytes) ==
    SubSeq(rec, 1, off) \o bytes \o SubSeq(rec, off + Len(bytes) + 1, Len(rec))

\* a 48-byte DRM entry: verification ver, checksum sum, and the cookie
\* (cver, flags, key, expiry) encrypted with ckey
DrmEntry(ver, sum, cver, flags, key, ckey) ==
    ver \o <<0, 0, 0, 48>> \o <<0, 0, 0, 1>> \o <<sum, 0, 0, 0>>
    \o mobi_pk1_encrypt(cver \o flags \o key \o <<0, 0, 0, 0, 0, 0, 0, 0>>,
                        ckey).out

\* The table of document "v2", in order: a cookie of device B whose
\* verification word differs; a cookie of device A with no flag among the
\* low five; two good cookies of device A with different book keys; a good
\* cookie of device C.
DrmTableV2 ==
    DrmEntry(<<0, 0, 0, 7>>, mobi_drm_keychecksum(DeviceKey(PidB)),
             <<0, 0, 1, 7>>, <<0, 0, 0, 1>>, BookKeyA2, DeviceKey(PidB))
    \o DrmEntry(<<0, 0, 0, 9>>, mobi_drm_keychecksum(DeviceKey(PidA)),
                <<0, 0, 0, 9>>, <<255, 255, 255, 224>>, BookKeyA2, DeviceKey(PidA))
    \o DrmEntry(<<0, 0, 0, 9>>, mobi_drm_keychecksum(DeviceKey(PidA)),
                <<0, 0, 0, 9>>, <<0, 0, 0, 1>>, BookKeyA1, DeviceKey(PidA))
    \o DrmEntry(<<0, 0, 0, 9>>, mobi_drm_keychecksum(DeviceKey(PidA)),
                <<0, 0, 0, 9>>, <<0, 0, 0, 3>>, BookKeyA2, DeviceKey(PidA))
    \o DrmEntry(<<18, 52, 86, 120>>, mobi_drm_keychecksum(DeviceKey(PidC)),
                <<18, 52, 86, 120>>, <<0, 0, 0, 16>>, BookKeyC, DeviceKey(PidC))

\* a table with one good cookie of device A
DrmTableA ==
    DrmEntry(<<0, 0, 0, 9>>, mobi_drm_keychecksum(DeviceKey(PidA)),
             <<0, 0, 0, 9>>, <<0, 0, 0, 1>>, BookKeyA1, DeviceKey(PidA))

\* The table of document "v2_neutral": a cookie of device B whose
\* verification word differs, then a good cookie encrypted with KEYVEC1,
\* which no device key is needed for.
DrmTableNeutral ==
    DrmEntry(<<0, 0, 0, 7>>, mobi_drm_keychecksum(DeviceKey(PidB)),
             <<0, 0, 1, 7>>, <<0, 0, 0, 1>>, BookKeyA2, DeviceKey(PidB))
    \o DrmEntry(<<0, 0, 0, 5>>, mobi_drm_keychecksum(KEYVEC1),
                <<0, 0, 0, 5>>, <<0, 0, 0, 1>>, BookKeyN, KEYVEC1)

Document(name, rh, enc, ph, type, creator, mh, version, hlen, off, count, size, rec) ==
    [name |-> name, rh |-> rh, encryption_type |-> enc,
     ph |-> ph, ph_type |-> type, ph_creator |-> creator,
     mh |-> mh, version |-> version, header_length |-> hlen,
     drm_offset |-> off, drm_count |-> count, drm_size |-> size, rec |-> rec]

Books ==
    << \* not encrypted
       Document("plain", TRUE, 0, TRUE, "BOOK", "MOBI", TRUE, U32(6), U32(24),
                MOBI_NOTSET, 0, U32(0), Filler(160)),
       \* encryption type 1, key at offset 14
       Document("v1_text", TRUE, 1, TRUE, "TEXt", "REAd", TRUE, U32(6), U32(24),
                MOBI_NOTSET, 0, U32(0),
                Splice(Filler(160), 14,
                       mobi_pk1_encrypt(BookKeyV1, KEYVEC1_V1).out)),
       \* encryption type 1, no MOBI header: key at offset 144
       Document("v1_nomh", TRUE, 1, TRUE, "BOOK", "MOBI", FALSE, NULL, U32(0),
                MOBI_NOTSET, 0, U32(0), Filler(160)),
       \* encryption type 1, version not set: key at offset 144
       Document("v1_notset", TRUE, 1, TRUE, "BOOK", "REAd", TRUE, MOBI_NOTSET,
                U32(24), MOBI_NOTSET, 0, U32(0), Filler(160)),
       \* encryption type 1, key at offset header_length + 16
       Document("v1_hdr", TRUE, 1, TRUE, "TEXt", "MOBI", TRUE, U32(6), U32(24),
                MOBI_NOTSET, 0, U32(0), Filler(160)),
       \* encryption type 2, five descriptors
       Document("v2", TRUE, 2, TRUE, "BOOK", "MOBI", TRUE, U32(6), U32(24),
                U32(16), 5, U32(240), Filler(16) \o DrmTableV2),
       \* encryption type 2, no descriptors
       Document("v2_empty", TRUE, 2, TRUE, "BOOK", "MOBI", TRUE, U32(6), U32(24),
                U32(16), 0, U32(0), Filler(64)),
       \* encryption type 3, a good descriptor in a table said to be longer
       \* than Record 0
       Document("v2_guard", TRUE, 3, TRUE, "BOOK", "MOBI", TRUE, U32(6), U32(24),
                U32(16), 1, U32(49), Filler(16) \o DrmTableA),
       \* no Record 0 header
       Document("norh", FALSE, 0, TRUE, "BOOK", "MOBI", FALSE, NULL, U32(0),
                MOBI_NOTSET, 0, U32(0), Filler(16)),
       \* encryption type 1, no PalmDOC header
       Document("v1_noph", TRUE, 1, FALSE, "", "", TRUE, U32(6), U32(24),
                MOBI_NOTSET, 0, U32(0), Filler(160)),
       \* encryption type 2, no Record 0, drm_offset not set
       Document("v2_norec", TRUE, 2, TRUE, "BOOK", "MOBI", TRUE, U32(6), U32(24),
                MOBI_NOTSET, 1, U32(0), NULL),
       \* encryption type 2, two descriptors, the second for any device
       Document("v2_neutral", TRUE, 2, TRUE, "BOOK", "MOBI", TRUE, U32(6), U32(24),
                U32(16), 2, U32(96), Filler(16) \o DrmTableNeutral)
    >>

(***************************************************************************)
(* Arguments of the calls                                                  *)
(***************************************************************************)
\* the pid arguments of mobi_drm_setkey_internal: no PID, "", PIDs of 9 and
\* 11 characters, a PID with a wrong checksum, and four good ones
PidArgs ==
    {NULL, <<>>, SubSeq(PidA, 1, 9), PidA \o <<88>>,
     Ascii12345678 \o <<76, 69>>, PidA, PidB, PidC, PidD}

\* the allocation that fails during a call: none, malloc of the descriptor
\* array (getkey_v2), buffer_init_null (parse), calloc of the last
\* descriptor (parse), malloc of m->drm_key (setkey)
AllocSites == {"none", "drm_array", "parse_buf", "parse_entry", "drm_key"}

\* unsigned char drm_pid[PIDSIZE] = "\0"
ZeroPid == <<0, 0, 0, 0, 0, 0, 0, 0, 0, 0>>

(***************************************************************************)
(* TLC evaluates a constant once: the results of the PID check and of key  *)
(* recovery are tabulated over the documents and arguments above.          *)
(***************************************************************************)
pidverify_tab ==
    [p \in {q \in PidArgs : q # NULL /\ Len(q) = PIDSIZE} |-> mobi_drm_pidverify(p)]

getkey_tab ==
    [b \in DOMAIN Books,
     p \in {q \in DOMAIN pidverify_tab : pidverify_tab[q] = "SUCCESS"} \cup {ZeroPid},
     f \in AllocSites |-> mobi_drm_getkey(p, Books[b], f)]

(***************************************************************************)
(* Key holder                                                              *)
(***************************************************************************)
\* mobi_drm_setkey_internal freeing the stored key when key recovery fails
setkey_frees_on_failure(b, key, pid, fail) ==
    LET Store(got) ==
            IF got.ret # "SUCCESS"
            THEN [ret |-> got.ret, drm_key |-> NULL, line |-> 455,
                  visited |-> got.visited]
            ELSE IF key = NULL /\ fail = "drm_key"
            THEN [ret |-> "MALLOC_FAILED", drm_key |-> key, line |-> 461,
                  visited |-> got.visited]
            ELSE [ret |-> "SUCCESS", drm_key |-> got.key, line |-> 465,
                  visited |-> got.visited]
        Verified(verdict, drm_pid) ==
            IF verdict # "SUCCESS"
            THEN [ret |-> verdict, drm_key |-> key, line |-> 445, visited |-> 0]
            ELSE Store(getkey_tab[b, drm_pid, fail])
        Body(doc) ==
            IF ~doc.rh
            THEN [ret |-> "INIT_FAILED", drm_key |-> key, line |-> 424, visited |-> 0]
            ELSE IF doc.encryption_type = 0
            THEN [ret |-> "SUCCESS", drm_key |-> key, line |-> 429, visited |-> 0]
            ELSE IF doc.encryption_type > 1 /\ pid = NULL
            THEN [ret |-> "INIT_FAILED", drm_key |-> key, line |-> 434, visited |-> 0]
            ELSE IF doc.encryption_type > 1 /\ Len(pid) # PIDSIZE
            THEN [ret |-> "DRM_PIDINV", drm_key |-> key, line |-> 439, visited |-> 0]
            ELSE IF doc.encryption_type > 1
            THEN Verified(pidverify_tab[pid], pid)
            ELSE Verified("SUCCESS", ZeroPid)
    IN  Body(Books[b])

\* mobi_drm_setkey_internal freeing the stored key of an unencrypted document
setkey_plain_drops_key(b, key, pid, fail) ==
    LET Store(got) ==
            IF got.ret # "SUCCESS"
            THEN [ret |-> got.ret, drm_key |-> key, line |-> 455,
                  visited |-> got.visited]
            ELSE IF key = NULL /\ fail = "drm_key"
            THEN [ret |-> "MALLOC_FAILED", drm_key |-> key, line |-> 461,
                  visited |-> got.visited]
            ELSE [ret |-> "SUCCESS", drm_key |-> got.key, line |-> 465,
                  visited |-> got.visited]
        Verified(verdict, drm_pid) ==
            IF verdict # "SUCCESS"
            THEN [ret |-> verdict, drm_key |-> key, line |-> 445, visited |-> 0]
            ELSE Store(getkey_tab[b, drm_pid, fail])
        Body(doc) ==
            IF ~doc.rh
            THEN [ret |-> "INIT_FAILED", drm_key |-> key, line |-> 424, visited |-> 0]
            ELSE IF doc.encryption_type = 0
            THEN [ret |-> "SUCCESS", drm_key |-> NULL, line |-> 429, visited |-> 0]
            ELSE IF doc.encryption_type > 1 /\ pid = NULL
            THEN [ret |-> "INIT_FAILED", drm_key |-> key, line |-> 434, visited |-> 0]
            ELSE IF doc.encryption_type > 1 /\ Len(pid) # PIDSIZE
            THEN [ret |-> "DRM_PIDINV", drm_key |-> key, line |-> 439, visited |-> 0]
            ELSE IF doc.encryption_type > 1
            THEN Verified(pidverify_tab[pid], pid)
            ELSE Verified("SUCCESS", ZeroPid)
    IN  Body(Books[b])

\* mobi_drm_setkey_internal allocating m->drm_key anew although one is stored
setkey_always_mallocs(b, key, pid, fail) ==
    LET Store(got) ==
            IF got.ret # "SUCCESS"
            THEN [ret |-> got.ret, drm_key |-> key, line |-> 455,
                  visited |-> got.visited]
            ELSE IF fail = "drm_key"
            THEN [ret |-> "MALLOC_FAILED", drm_key |-> NULL, line |-> 461,
                  visited |-> got.visited]
            ELSE [ret |-> "SUCCESS", drm_key |-> got.key, line |-> 465,
                  visited |-> got.visited]
        Verified(verdict, drm_pid) ==
            IF verdict # "SUCCESS"
            THEN [ret |-> verdict, drm_key |-> key, line |-> 445, visited |-> 0]
            ELSE Store(getkey_tab[b, drm_pid, fail])
        Body(doc) ==
            IF ~doc.rh
            THEN [ret |-> "INIT_FAILED", drm_key |-> key, line |-> 424, visited |-> 0]
            ELSE IF doc.encryption_type = 0
            THEN [ret |-> "SUCCESS", drm_key |-> key, line |-> 429, visited |-> 0]
            ELSE IF doc.encryption_type > 1 /\ pid = NULL
            THEN [ret |-> "INIT_FAILED", drm_key |-> key, line |-> 434, visited |-> 0]
            ELSE IF doc.encryption_type > 1 /\ Len(pid) # PIDSIZE
            THEN [ret |-> "DRM_PIDINV", drm_key |-> key, line |-> 439, visited |-> 0]
            ELSE IF doc.encryption_type > 1
            THEN Verified(pidverify_tab[pid], pid)
            ELSE Verified("SUCCESS", ZeroPid)
    IN  Body(Books[b])

\* MOBI_RET mobi_drm_setkey_internal(MOBIData *m, const char *pid) on
\* document Books[b] with m->drm_key = key: the status, m->drm_key after the
\* call, the source line of the return statement taken, and the number of
\* DRM descriptors visited.  Body(doc) is the function on the document,
\* Verified what follows the PID checks (verdict is the result of
\* mobi_drm_pidverify, drm_pid the PID handed to mobi_drm_getkey), Store
\* what follows mobi_drm_getkey.
mobi_drm_setkey_internal(b, key, pid, fail) ==
    LET Store(got) ==
            IF got.ret # "SUCCESS"
            THEN [ret |-> got.ret, drm_key |-> key, line |-> 455,
                  visited |-> got.visited]
            ELSE IF key = NULL /\ fail = "drm_key"
            THEN [ret |-> "MALLOC_FAILED", drm_key |-> key, line |-> 461,
                  visited |-> got.visited]
            ELSE [ret |-> "SUCCESS", drm_key |-> got.key, line |-> 465,
                  visited |-> got.visited]
        Verified(verdict, drm_pid) ==
            IF verdict # "SUCCESS"
            THEN [ret |-> verdict, drm_key |-> key, line |-> 445, visited |-> 0]
            ELSE Store(getkey_tab[b, drm_pid, fail])
        Body(doc) ==
            IF ~doc.rh
            THEN [ret |-> "INIT_FAILED", drm_key |-> key, line |-> 424, visited |-> 0]
            ELSE IF doc.encryption_type = 0
            THEN [ret |-> "SUCCESS", drm_key |-> key, line |-> 429, visited |-> 0]
            ELSE IF doc.encryption_type > 1 /\ pid = NULL
            THEN [ret |-> "INIT_FAILED", drm_key |-> key, line |-> 434, visited |-> 0]
            ELSE IF doc.encryption_type > 1 /\ Len(pid) # PIDSIZE
            THEN [ret |-> "DRM_PIDINV", drm_key |-> key, line |-> 439, visited |-> 0]
            ELSE IF doc.encryption_type > 1
            THEN Verified(pidverify_tab[pid], pid)
            ELSE Verified("SUCCESS", ZeroPid)
    IN  Body(Books[b])

\* mobi_drm_delkey_internal failing when there is no key to free
delkey_needs_key(key) ==
    IF key = NULL THEN [ret |-> "INIT_FAILED", drm_key |-> NULL, line |-> 476]
    ELSE [ret |-> "SUCCESS", drm_key |-> NULL, line |-> 482]

\* mobi_drm_delkey_internal without free and m->drm_key = NULL
delkey_leaves_key(key) ==
    [ret |-> "SUCCESS", drm_key |-> key, line |-> 482]

\* MOBI_RET mobi_drm_delkey_internal(MOBIData *m), for a non-null m
mobi_drm_delkey_internal(key) ==
    [ret |-> "SUCCESS", drm_key |-> NULL, line |-> 482]

\* the keys a handle can come to hold
StoredKeys ==
    LET Keys(tab) == {tab[x].key : x \in DOMAIN tab} \ {NULL}
    IN  Keys(getkey_tab)

\* the longest ciphertext handed to mobi_decrypt
MaxInLen == 2

\* the bytes it is made of
InBytes == {0, 165}

RECURSIVE SeqsUpTo(_, _)
SeqsUpTo(S, n) ==
    IF n = 0 THEN {<<>>}
    ELSE LET shorter == SeqsUpTo(S, n - 1)
         IN  shorter \cup {Append(q, x) : q \in {r \in shorter : Len(r) = n - 1}, x \in S}

\* the in arguments of mobi_decrypt
InArgs == SeqsUpTo(InBytes, MaxInLen) \cup {NULL}

pk1_decrypt_tab == [i \in InArgs, k \in StoredKeys |-> mobi_pk1_decrypt(i, k)]

\* mobi_decrypt falling back to KEYVEC1 when no key is stored
mobi_decrypt_default_key(in, key) ==
    LET Ret(d) == [ret |-> d.ret, out |-> d.out, line |-> 388]
    IN  IF key = NULL THEN Ret(mobi_pk1_decrypt(in, KEYVEC1))
        ELSE Ret(pk1_decrypt_tab[in, key])

\* MOBI_RET mobi_decrypt(out, in, length, m), for non-null m and out
mobi_decrypt(in, key) ==
    LET Ret(d) == [ret |-> d.ret, out |-> d.out, line |-> 388]
    IN  IF key = NULL THEN [ret |-> "INIT_FAILED", out |-> <<>>, line |-> 385]
        ELSE Ret(pk1_decrypt_tab[in, key])

(***************************************************************************)
(* The handle: a document is loaded, then keys are set and deleted and     *)
(* records decrypted in any order                                          *)
(***************************************************************************)
Snapshot == [op |-> op, pid |-> pid_arg, ret |-> ret, key |-> drm_key]

Init ==
    /\ book \in DOMAIN Books
    /\ drm_key = NULL
    /\ op = "load"
    /\ pid_arg = NULL
    /\ fail_arg = "none"
    /\ in_arg = NULL
    /\ ret = "SUCCESS"
    /\ out = <<>>
    /\ line = 0
    /\ visited = 0
    /\ prev = [op |-> "none", pid |-> NULL, ret |-> "SUCCESS", key |-> NULL]
    /\ stored_since = FALSE
    /\ pk_key = KEYVEC1
    /\ pk_plain = <<>>
    /\ pk_cipher = <<>>
    /\ pk_back = <<>>
    /\ pk_stage = "idle"
    /\ call = [fn |-> "none"]
    /\ result = [fn |-> "none"]
    /\ shared = <<>>
    /\ threads = <<>>
    /\ frame = [pc |-> "none"]
    /\ heap = <<>>

SetKey ==
    \E pid \in PidArgs, fail \in AllocSites :
        \E r \in {mobi_drm_setkey_internal(book, drm_key, pid, fail)} :
            /\ op' = "set_key"
            /\ pid_arg' = pid
            /\ fail_arg' = fail
            /\ ret' = r.ret
            /\ drm_key' = r.drm_key
            /\ line' = r.line
            /\ visited' = r.visited
            /\ out' = <<>>
            /\ in_arg' = NULL
            /\ prev' = Snapshot
            /\ stored_since' =
                   (stored_since \/ (r.ret = "SUCCESS" /\ Books[book].rh
                                        /\ Books[book].encryption_type >= 1))
            /\ UNCHANGED book
            /\ UNCHANGED pkvars
            /\ UNCHANGED fnvars
            /\ UNCHANGED stepvars

DeleteKey ==
    \E r \in {mobi_drm_delkey_internal(drm_key)} :
        /\ op' = "delete_key"
        /\ ret' = r.ret
        /\ drm_key' = r.drm_key
        /\ line' = r.line
        /\ visited' = 0
        /\ out' = <<>>
        /\ pid_arg' = NULL
        /\ fail_arg' = "none"
        /\ in_arg' = NULL
        /\ prev' = Snapshot
        /\ stored_since' = FALSE
        /\ UNCHANGED book
        /\ UNCHANGED pkvars
        /\ UNCHANGED fnvars
        /\ UNCHANGED stepvars

Decrypt ==
    \E in \in InArgs :
        \E r \in {mobi_decrypt(in, drm_key)} :
            /\ op' = "decrypt"
            /\ in_arg' = in
            /\ ret' = r.ret
            /\ out' = r.out
            /\ line' = r.line
            /\ visited' = 0
            /\ pid_arg' = NULL
            /\ fail_arg' = "none"
            /\ prev' = Snapshot
            /\ UNCHANGED <<book, drm_key, stored_since>>
            /\ UNCHANGED pkvars
            /\ UNCHANGED fnvars
            /\ UNCHANGED stepvars

Next == SetKey \/ DeleteKey \/ Decrypt

Spec == Init /\ [][Next]_vars

(***************************************************************************)
(* Cipher runs: a plaintext is encrypted under a key and the result is     *)
(* decrypted under the same key                                            *)
(***************************************************************************)
\* the longest plaintext
MaxPlainLen == 3

\* the bytes it is made of
PlainBytes == {0, 1, 90, 255}

ZeroKey == <<0, 0, 0, 0, 0, 0, 0, 0, 0, 0, 0, 0, 0, 0, 0, 0>>

Pk1Keys == {KEYVEC1, KEYVEC1_V1, ZeroKey}

InitPK1 ==
    /\ book = 1
    /\ drm_key = NULL
    /\ op = "load"
    /\ pid_arg = NULL
    /\ fail_arg = "none"
    /\ in_arg = NULL
    /\ ret = "SUCCESS"
    /\ out = <<>>
    /\ line = 0
    /\ visited = 0
    /\ prev = [op |-> "none", pid |-> NULL, ret |-> "SUCCESS", key |-> NULL]
    /\ stored_since = FALSE
    /\ pk_key \in Pk1Keys
    /\ pk_plain \in SeqsUpTo(PlainBytes, MaxPlainLen)
    /\ pk_cipher = <<>>
    /\ pk_back = <<>>
    /\ pk_stage = "plain"
    /\ call = [fn |-> "none"]
    /\ result = [fn |-> "none"]
    /\ shared = <<>>
    /\ threads = <<>>
    /\ frame = [pc |-> "none"]
    /\ heap = <<>>

Pk1Encrypt ==
    /\ pk_stage = "plain"
    /\ pk_cipher' = mobi_pk1_encrypt(pk_plain, pk_key).out
    /\ pk_stage' = "encrypted"
    /\ UNCHANGED <<pk_key, pk_plain, pk_back>>
    /\ UNCHANGED hvars
    /\ UNCHANGED fnvars
    /\ UNCHANGED stepvars

Pk1Decrypt ==
    /\ pk_stage = "encrypted"
    /\ pk_back' = mobi_pk1_decrypt(pk_cipher, pk_key).out
    /\ pk_stage' = "decrypted"
    /\ UNCHANGED <<pk_key, pk_plain, pk_cipher>>
    /\ UNCHANGED hvars
    /\ UNCHANGED fnvars
    /\ UNCHANGED stepvars

NextPK1 == Pk1Encrypt \/ Pk1Decrypt

SpecPK1 == InitPK1 /\ [][NextPK1]_vars

(***************************************************************************)
(* Single calls of the functions of the engine: a function and its         *)
(* arguments are chosen, and the function is called once                   *)
(***************************************************************************)
\* the pid arguments of mobi_drm_pidverify: ten characters, the last two
\* right or wrong for the first eight
PidPrefixes == {Ascii12345678, AsciiABCDEFGH, AsciiA1B2C3D4, AsciiKINDLEA4}
PidSuffixes ==
    {<<69, 76>>, <<72, 65>>, <<54, 75>>, <<74, 76>>,    \* EL HA 6K JL
     <<76, 69>>, <<65, 65>>, <<57, 57>>, <<48, 79>>}    \* LE AA 99 0O

PidCalls ==
    {[fn |-> "mobi_drm_pidverify", pid |-> p \o x] : p \in PidPrefixes, x \in PidSuffixes}

\* the longest buffer handed to the cipher
MaxMemLen == 3

\* the bytes it is made of
MemBytes == {0, 90, 255}

\* the keys: the two constants, the key of a device, and a book key
MemKeys == {KEYVEC1, KEYVEC1_V1, DeviceKey(PidA), BookKeyA1}

\* A call of the cipher on length bytes: the key is at address 0 and the
\* input at address KEYSIZE; the output is written over the input when
\* inplace, and to the length bytes after it otherwise.
Pk1Call(fn, key, text, inplace) ==
    [fn |-> fn,
     mem |-> key \o text \o (IF inplace THEN <<>> ELSE [i \in 1..Len(text) |-> 170]),
     key |-> 0, in |-> KEYSIZE,
     out |-> IF inplace THEN KEYSIZE ELSE KEYSIZE + Len(text),
     length |-> Len(text)]

Pk1Calls ==
    {Pk1Call(fn, key, text, inplace) :
        fn \in {"mobi_pk1_encrypt", "mobi_pk1_decrypt"}, key \in MemKeys,
        text \in SeqsUpTo(MemBytes, MaxMemLen), inplace \in BOOLEAN}

\* the header fields and Record 0 handed to mobi_drm_parse: positions and
\* sizes up to the top of the 32-bit range, and records that hold one
\* descriptor, two descriptors, or none at position 16
ParseOffsets == {U32(0), U32(16), U32(64), <<65535, 65520>>, MOBI_NOTSET}
ParseSizes   == {U32(0), U32(48), U32(49), U32(96), <<65535, 65504>>, <<65535, 65535>>}
ParseCounts  == {0, 1, 2}
ParseRecs    == {Filler(8), Filler(16) \o DrmTableA, Filler(16) \o DrmTableNeutral}

ParseCalls ==
    {[fn |-> "mobi_drm_parse",
      m |-> [mh |-> TRUE, drm_offset |-> off, drm_count |-> count,
             drm_size |-> size, rec |-> rec],
      fail |-> fail] :
        off \in ParseOffsets, size \in ParseSizes, count \in ParseCounts,
        rec \in ParseRecs, fail \in {"none", "parse_buf", "parse_entry"}}

\* the arguments of mobi_drm_verify: a verification word and a cookie made
\* of a verification word, flags, and 24 more bytes
VerifyWords == {<<0, 9>>, <<4660, 22136>>, <<0, 0>>}
CookieWords == {<<0, 0, 0, 9>>, <<18, 52, 86, 120>>, <<0, 0, 1, 9>>, <<9, 0, 0, 0>>}
CookieFlags ==
    {<<0, 0, 0, 0>>, <<0, 0, 0, 1>>, <<0, 0, 0, 16>>, <<0, 0, 0, 31>>,
     <<0, 0, 0, 32>>, <<0, 0, 1, 0>>, <<1, 0, 0, 2>>, <<255, 255, 255, 224>>}
CookieTails ==
    {[i \in 1..24 |-> 0], BookKeyA1 \o [i \in 1..8 |-> 255], Filler(24)}

VerifyCalls ==
    {[fn |-> "mobi_drm_verify", drm_verification |-> v, cookie |-> w \o f \o t] :
        v \in VerifyWords, w \in CookieWords, f \in CookieFlags, t \in CookieTails}

\* the keys handed to mobi_drm_keychecksum
ChecksumKeys ==
    {KEYVEC1, KEYVEC1_V1, ZeroKey, [i \in 1..KEYSIZE |-> 255],
     DeviceKey(PidA), DeviceKey(PidB), DeviceKey(PidC), DeviceKey(PidD),
     BookKeyA1, BookKeyA2, BookKeyC, BookKeyV1, BookKeyN}

ChecksumCalls == {[fn |-> "mobi_drm_keychecksum", key |-> k] : k \in ChecksumKeys}

\* the PC1 states handed to pk1_code: si, x1a2 and x1a0[i] at the ends and
\* the middle of the uint16_t range and at 60387, whose product with 0x4e35
\* is 0xffff modulo 2^16; the other seven words of x1a0 at 0xabcd
CodeWords == {0, 1, 255, 32767, 32768, 60387, 65535}

CodeCalls ==
    {[fn |-> "pk1_code",
      pk1 |-> [si |-> s, x1a2 |-> d,
               x1a0 |-> [k \in 1..8 |-> IF k = i + 1 THEN a ELSE 43981]],
      i |-> i] :
        s \in CodeWords, d \in CodeWords, a \in CodeWords, i \in 0..7}

\* a cipher call on a buffer and the same call on its first n bytes
PrefixCalls ==
    {[fn |-> fn, key |-> key, in |-> text, n |-> n] :
        fn \in {"encrypt_prefix", "decrypt_prefix"}, key \in MemKeys,
        text \in SeqsUpTo(MemBytes, MaxMemLen), n \in 0..MaxMemLen}

\* the handle and the arguments of mobi_drm_setkey_internal: any document,
\* m->drm_key null or holding a key, any pid, and any failing allocation
SetKeyCalls ==
    {[fn |-> "mobi_drm_setkey_internal", book |-> b, drm_key |-> k, pid |-> p,
      fail |-> f] :
        b \in DOMAIN Books, k \in StoredKeys \cup {NULL}, p \in PidArgs,
        f \in AllocSites}

Calls ==
    PidCalls \cup Pk1Calls \cup ParseCalls \cup VerifyCalls \cup ChecksumCalls
        \cup CodeCalls \cup {c \in PrefixCalls : c.n <= Len(c.in)}
        \cup SetKeyCalls

InitCalls ==
    /\ book = 1
    /\ drm_key = NULL
    /\ op = "load"
    /\ pid_arg = NULL
    /\ fail_arg = "none"
    /\ in_arg = NULL
    /\ ret = "SUCCESS"
    /\ out = <<>>
    /\ line = 0
    /\ visited = 0
    /\ prev = [op |-> "none", pid |-> NULL, ret |-> "SUCCESS", key |-> NULL]
    /\ stored_since = FALSE
    /\ pk_key = KEYVEC1
    /\ pk_plain = <<>>
    /\ pk_cipher = <<>>
    /\ pk_back = <<>>
    /\ pk_stage = "idle"
    /\ call \in Calls
    /\ result = [fn |-> "none"]
    /\ shared = <<>>
    /\ threads = <<>>
    /\ frame = [pc |-> "none"]
    /\ heap = <<>>

\* the call of mobi_drm_pidverify: the status, with checksum[2] and the
\* folded crc it was computed from
PidVerify ==
    /\ result.fn = "none"
    /\ call.fn = "mobi_drm_pidverify"
    /\ result' = [fn |-> call.fn,
                  ret |-> mobi_drm_pidverify(call.pid),
                  checksum |-> pid_checksum(call.pid),
                  crc |-> pid_crc(call.pid)]
    /\ UNCHANGED call
    /\ UNCHANGED hvars
    /\ UNCHANGED pkvars
    /\ UNCHANGED stepvars

Pk1EncryptCall ==
    /\ result.fn = "none"
    /\ call.fn = "mobi_pk1_encrypt"
    /\ \E r \in {mobi_pk1_encrypt_mem(call.mem, call.out, call.in, call.length,
                                       call.key)} :
           result' = [fn |-> call.fn, ret |-> r.ret, mem |-> r.mem]
    /\ UNCHANGED call
    /\ UNCHANGED hvars
    /\ UNCHANGED pkvars
    /\ UNCHANGED stepvars

Pk1DecryptCall ==
    /\ result.fn = "none"
    /\ call.fn = "mobi_pk1_decrypt"
    /\ \E r \in {mobi_pk1_decrypt_mem(call.mem, call.out, call.in, call.length,
                                       call.key)} :
           result' = [fn |-> call.fn, ret |-> r.ret, mem |-> r.mem]
    /\ UNCHANGED call
    /\ UNCHANGED hvars
    /\ UNCHANGED pkvars
    /\ UNCHANGED stepvars

\* the call of mobi_drm_parse: the number returned and the descriptors
\* written to drm
DrmParse ==
    /\ result.fn = "none"
    /\ call.fn = "mobi_drm_parse"
    /\ \E r \in {mobi_drm_parse(call.m, call.fail)} :
           result' = [fn |-> call.fn, count |-> r.count, drm |-> r.drm]
    /\ UNCHANGED call
    /\ UNCHANGED hvars
    /\ UNCHANGED pkvars
    /\ UNCHANGED stepvars

DrmVerify ==
    /\ result.fn = "none"
    /\ call.fn = "mobi_drm_verify"
    /\ result' = [fn |-> call.fn,
                  ret |-> mobi_drm_verify(call.drm_verification, call.cookie)]
    /\ UNCHANGED call
    /\ UNCHANGED hvars
    /\ UNCHANGED pkvars
    /\ UNCHANGED stepvars

KeyChecksum ==
    /\ result.fn = "none"
    /\ call.fn = "mobi_drm_keychecksum"
    /\ result' = [fn |-> call.fn, ret |-> mobi_drm_keychecksum(call.key)]
    /\ UNCHANGED call
    /\ UNCHANGED hvars
    /\ UNCHANGED pkvars
    /\ UNCHANGED stepvars

\* the call of pk1_code: the state it leaves, the value it returns, and
\* the values of its products and sums before conversion to uint16_t
Pk1Code ==
    /\ result.fn = "none"
    /\ call.fn = "pk1_code"
    /\ \E r \in {pk1_code(call.pk1, call.i)} :
           result' = [fn |-> call.fn, pk1 |-> r.pk1, val |-> r.val,
                      wide |-> pk1_code_wide(call.pk1, call.i)]
    /\ UNCHANGED call
    /\ UNCHANGED hvars
    /\ UNCHANGED pkvars
    /\ UNCHANGED stepvars

\* mobi_pk1_encrypt on call.in and on its first call.n bytes, each with an
\* output buffer of its own: the bytes written by the two calls
Pk1EncryptPrefix ==
    /\ result.fn = "none"
    /\ call.fn = "encrypt_prefix"
    /\ result' = [fn |-> call.fn,
                  whole |-> mobi_pk1_encrypt(call.in, call.key).out,
                  part |-> mobi_pk1_encrypt(SubSeq(call.in, 1, call.n), call.key).out]
    /\ UNCHANGED call
    /\ UNCHANGED hvars
    /\ UNCHANGED pkvars
    /\ UNCHANGED stepvars

\* mobi_pk1_decrypt, likewise
Pk1DecryptPrefix ==
    /\ result.fn = "none"
    /\ call.fn = "decrypt_prefix"
    /\ result' = [fn |-> call.fn,
                  whole |-> mobi_pk1_decrypt(call.in, call.key).out,
                  part |-> mobi_pk1_decrypt(SubSeq(call.in, 1, call.n), call.key).out]
    /\ UNCHANGED call
    /\ UNCHANGED hvars
    /\ UNCHANGED pkvars
    /\ UNCHANGED stepvars

\* the call of mobi_drm_setkey_internal on a handle: the status, m->drm_key
\* after the call, the line returned at, and the descriptors visited
SetKeyCall ==
    /\ result.fn = "none"
    /\ call.fn = "mobi_drm_setkey_internal"
    /\ \E r \in {mobi_drm_setkey_internal(call.book, call.drm_key, call.pid,
                                           call.fail)} :
           result' = [fn |-> call.fn, ret |-> r.ret, drm_key |-> r.drm_key,
                      line |-> r.line, visited |-> r.visited]
    /\ UNCHANGED call
    /\ UNCHANGED hvars
    /\ UNCHANGED pkvars
    /\ UNCHANGED stepvars

NextCalls ==
    \/ PidVerify
    \/ Pk1EncryptCall
    \/ Pk1DecryptCall
    \/ DrmParse
    \/ DrmVerify
    \/ KeyChecksum
    \/ Pk1Code
    \/ Pk1EncryptPrefix
    \/ Pk1DecryptPrefix
    \/ SetKeyCall

SpecCalls == InitCalls /\ [][NextCalls]_vars

(***************************************************************************)
(* Concurrent calls of mobi_pk1_decrypt: two calls run at once on memory   *)
(* they share, a step of one or the other at a time.  The memory holds two *)
(* keys, the input of each call, and the output buffer of each call; the   *)
(* locals of a call (pk1, key_copy, and the advancing in, out and length)  *)
(* are its own.                                                            *)
(***************************************************************************)
\* the longest input of a concurrent call
MaxParLen == 2

\* the bytes it is made of
ParBytes == {0, 165}

ParTexts == SeqsUpTo(ParBytes, MaxParLen)

\* the key stored in the handle at address 0, another key at KEYSIZE, the
\* two inputs, and the two output buffers
ParMemory(in1, in2) ==
    BookKeyA1 \o KEYVEC1 \o in1 \o in2 \o [i \in 1..(Len(in1) + Len(in2)) |-> 170]

\* A call mobi_pk1_decrypt(outp, in, length, key) about to start.  args
\* keeps the arguments; alone is what the call writes when it runs alone.
ParThread(mem, outp, in, length, key) ==
    [pc |-> "call",
     args |-> [out |-> outp, in |-> in, length |-> length, key |-> key],
     out |-> outp, in |-> in, length |-> length,
     pk1 |-> NULL, key_copy |-> NULL, ret |-> "none",
     alone |-> mobi_pk1_decrypt(SubSeq(mem, in + 1, in + length),
                                SubSeq(mem, key + 1, key + KEYSIZE)).out]

ParStart(mem, len1, len2, key1, key2) ==
    <<ParThread(mem, 2 * KEYSIZE + len1 + len2, 2 * KEYSIZE, len1, key1),
      ParThread(mem, 2 * KEYSIZE + len1 + len2 + len1, 2 * KEYSIZE + len1, len2, key2)>>

InitPar ==
    /\ book = 1
    /\ drm_key = NULL
    /\ op = "load"
    /\ pid_arg = NULL
    /\ fail_arg = "none"
    /\ in_arg = NULL
    /\ ret = "SUCCESS"
    /\ out = <<>>
    /\ line = 0
    /\ visited = 0
    /\ prev = [op |-> "none", pid |-> NULL, ret |-> "SUCCESS", key |-> NULL]
    /\ stored_since = FALSE
    /\ pk_key = KEYVEC1
    /\ pk_plain = <<>>
    /\ pk_cipher = <<>>
    /\ pk_back = <<>>
    /\ pk_stage = "idle"
    /\ call = [fn |-> "none"]
    /\ result = [fn |-> "none"]
    /\ \E in1 \in ParTexts, in2 \in ParTexts, key1 \in {0, KEYSIZE}, key2 \in {0, KEYSIZE} :
           /\ shared = ParMemory(in1, in2)
           /\ threads = ParStart(ParMemory(in1, in2), Len(in1), Len(in2), key1, key2)
    /\ frame = [pc |-> "none"]
    /\ heap = <<>>

\* decrypt_enter taking over the PC1 state and the working key that the
\* other call has reached, when it has started
decrypt_enter_reuse(mem, th, t) ==
    LET o == 3 - t
    IN  IF th[o].pc = "loop"
        THEN [th EXCEPT ![t] = [@ EXCEPT !.pk1 = th[o].pk1,
                                         !.key_copy = th[o].key_copy,
                                         !.pc = "loop"]]
        ELSE [th EXCEPT ![t] = [@ EXCEPT !.pk1 = PK1Zero,
                                         !.key_copy = SubSeq(mem, th[t].args.key + 1,
                                                             th[t].args.key + KEYSIZE),
                                         !.pc = "loop"]]

\* Lines 103-108 of call t: out and in are not null, the key is copied to
\* key_copy, and pk1 is a PC1 state that calloc has zeroed.
decrypt_enter(mem, th, t) ==
    [th EXCEPT ![t] = [pc |-> "loop", args |-> @.args,
                       out |-> @.out, in |-> @.in, length |-> @.length,
                       pk1 |-> PK1Zero,
                       key_copy |-> SubSeq(mem, @.args.key + 1, @.args.key + KEYSIZE),
                       ret |-> @.ret, alone |-> @.alone]]

DecryptEnter(t) ==
    /\ threads[t].pc = "call"
    /\ threads' = decrypt_enter(shared, threads, t)
    /\ UNCHANGED shared
    /\ UNCHANGED <<frame, heap>>
    /\ UNCHANGED hvars
    /\ UNCHANGED pkvars
    /\ UNCHANGED fnvars

\* One pass of the while loop of call t (lines 109-119): length-- was not
\* zero, a byte is read at in and written at out, and both advance.
DecryptPass(t) ==
    /\ threads[t].pc = "loop"
    /\ threads[t].length > 0
    /\ \E st \in {pk1_decrypt_pass([pk1 |-> threads[t].pk1,
                                      key_copy |-> threads[t].key_copy,
                                      mem |-> shared],
                                     threads[t].in, threads[t].out)} :
           /\ shared' = st.mem
           /\ threads' = [threads EXCEPT ![t] =
                              [@ EXCEPT !.pk1 = st.pk1, !.key_copy = st.key_copy,
                                        !.in = @ + 1, !.out = @ + 1,
                                        !.length = @ - 1]]
    /\ UNCHANGED <<frame, heap>>
    /\ UNCHANGED hvars
    /\ UNCHANGED pkvars
    /\ UNCHANGED fnvars

\* Lines 120-121 of call t: length-- was zero, pk1 is freed, and the call
\* returns MOBI_SUCCESS.
DecryptLeave(t) ==
    /\ threads[t].pc = "loop"
    /\ threads[t].length = 0
    /\ threads' = [threads EXCEPT ![t] =
                       [@ EXCEPT !.pc = "done", !.pk1 = NULL, !.ret = "SUCCESS"]]
    /\ UNCHANGED shared
    /\ UNCHANGED <<frame, heap>>
    /\ UNCHANGED hvars
    /\ UNCHANGED pkvars
    /\ UNCHANGED fnvars

NextPar ==
    \/ \E t \in {1, 2} : DecryptEnter(t)
    \/ \E t \in {1, 2} : DecryptPass(t)
    \/ \E t \in {1, 2} : DecryptLeave(t)

SpecPar == InitPar /\ [][NextPar]_vars

(***************************************************************************)
(* Key recovery by steps: one call of mobi_drm_getkey_v2, with the objects *)
(* it and mobi_drm_parse allocate and free.  heap is the sequence of the   *)
(* objects allocated so far, in order; an object is [kind, frees, val],    *)
(* frees counting the calls of free on it, and a pointer to it is its      *)
(* position in heap.  frame holds the arguments and locals: m, pid, the    *)
(* allocation that fails, tempkey and the two checksums, drm (the pointer  *)
(* array), entries (the pointers parse has written to drm[0], drm[1],      *)
(* ...), buf and its object, the loop index i, the drm_count returned by   *)
(* parse, the status and the key, and stale, the number of reads made      *)
(* through a pointer to a freed object.                                    *)
(***************************************************************************)
\* encryption type 2, one descriptor of device A cut short after its
\* checksum: its cookie lies past the end of Record 0
DocShort ==
    Document("v2_short", TRUE, 2, TRUE, "BOOK", "MOBI", TRUE, U32(6), U32(24),
             U32(16), 1, U32(16), Filler(16) \o SubSeq(DrmTableA, 1, 16))

\* the documents that mobi_drm_getkey hands to mobi_drm_getkey_v2 (line
\* 363: all but those of encryption type 1), one of them without MOBI
\* header, and the PIDs that mobi_drm_pidverify accepts
KeyV2Docs ==
    {Books[b] : b \in {c \in DOMAIN Books :
                          ~(Books[c].rh /\ Books[c].encryption_type = 1)}}
        \cup {DocShort}

KeyV2Pids ==
    {q \in PidArgs : q # NULL /\ Len(q) = PIDSIZE /\ pidverify_tab[q] = "SUCCESS"}

KeyV2Fails == {"none", "drm_array", "parse_buf", "parse_entry"}

\* malloc, calloc: the heap with a new object
heap_alloc(h, kind, val) == Append(h, [kind |-> kind, frees |-> 0, val |-> val])

\* free(p)
heap_free(h, p) == [h EXCEPT ![p] = [@ EXCEPT !.frees = @ + 1]]

\* the number of reads of *p that find it freed: 1 or 0
heap_stale(h, p) == IF h[p].frees > 0 THEN 1 ELSE 0

\* static void mobi_drm_free(MOBIDrm **drm, const size_t count): drm[i] is
\* freed for i < count, then drm.  entries are the pointers in drm.
mobi_drm_free(h, drm, entries, count) ==
    LET RECURSIVE FreeFrom(_, _)
        FreeFrom(hh, i) ==
            IF i >= count THEN hh
            ELSE FreeFrom(heap_free(hh, entries[i + 1]), i + 1)
    IN  heap_free(FreeFrom(h, 0), drm)

InitKeyV2 ==
    /\ book = 1
    /\ drm_key = NULL
    /\ op = "load"
    /\ pid_arg = NULL
    /\ fail_arg = "none"
    /\ in_arg = NULL
    /\ ret = "SUCCESS"
    /\ out = <<>>
    /\ line = 0
    /\ visited = 0
    /\ prev = [op |-> "none", pid |-> NULL, ret |-> "SUCCESS", key |-> NULL]
    /\ stored_since = FALSE
    /\ pk_key = KEYVEC1
    /\ pk_plain = <<>>
    /\ pk_cipher = <<>>
    /\ pk_back = <<>>
    /\ pk_stage = "idle"
    /\ call = [fn |-> "none"]
    /\ result = [fn |-> "none"]
    /\ shared = <<>>
    /\ threads = <<>>
    /\ \E m \in KeyV2Docs, pid \in KeyV2Pids, fail \in KeyV2Fails :
           frame = [pc |-> "call", m |-> m, pid |-> pid, fail |-> fail,
                    tempkey |-> NULL, tempkey_checksum |-> 0, keyvec1_checksum |-> 0,
                    drm |-> 0, entries |-> <<>>, buf |-> NULL, buf_obj |-> 0,
                    i |-> 0, drm_count |-> 0, ret |-> "none", key |-> NULL,
                    line |-> 269, stale |-> 0]
    /\ heap = <<>>

\* Lines 270-284: tempkey is the PID without its checksum characters
\* encrypted under KEYVEC1, the two checksums are taken, and the pointer
\* array is allocated, its size read from *m->mh->drm_count: without a
\* MOBI header the read is through a null pointer and the call ends there.
GetKeyEnter ==
    /\ frame.pc = "call"
    /\ \E t \in {mobi_pk1_encrypt(SubSeq(frame.pid, 1, PIDSIZE - 2)
                                       \o <<0, 0, 0, 0, 0, 0, 0, 0>>, KEYVEC1)} :
           IF t.ret # "SUCCESS"
           THEN /\ frame' = [frame EXCEPT !.pc = "return", !.ret = t.ret, !.line = 275]
                /\ UNCHANGED heap
           ELSE \* lines 277 and 279: the two checksums, taken before line 280
                LET locals == [frame EXCEPT
                                  !.tempkey = t.out,
                                  !.tempkey_checksum = mobi_drm_keychecksum(t.out),
                                  !.keyvec1_checksum = mobi_drm_keychecksum(KEYVEC1)]
                IN  IF ~frame.m.mh
                    THEN /\ frame' = [locals EXCEPT !.pc = "SIGSEGV", !.ret = "SIGSEGV",
                                                    !.line = 280]
                         /\ UNCHANGED heap
                    ELSE IF frame.fail = "drm_array"
                    THEN /\ frame' = [locals EXCEPT !.pc = "return",
                                                    !.ret = "MALLOC_FAILED",
                                                    !.line = 283]
                         /\ UNCHANGED heap
                    ELSE /\ heap' = heap_alloc(heap, "array", frame.m.drm_count)
                         /\ frame' = [locals EXCEPT !.pc = "parse",
                                                    !.drm = Len(heap) + 1,
                                                    !.line = 285]
    /\ UNCHANGED <<shared, threads>>
    /\ UNCHANGED hvars
    /\ UNCHANGED pkvars
    /\ UNCHANGED fnvars

\* Lines 172-193 of mobi_drm_parse: the exits that return 0 (no MOBI header,
\* no table, failed allocation of buf, table past the end of Record 0, with
\* buf freed), or the cursor set at the table.
ParseEnter ==
    /\ frame.pc = "parse"
    /\ IF ~frame.m.mh
       THEN /\ frame' = [frame EXCEPT !.pc = "search", !.drm_count = 0, !.line = 173]
            /\ UNCHANGED heap
       ELSE IF frame.m.drm_offset = MOBI_NOTSET \/ frame.m.drm_count = 0
       THEN /\ frame' = [frame EXCEPT !.pc = "search", !.drm_count = 0, !.line = 179]
            /\ UNCHANGED heap
       ELSE IF frame.fail = "parse_buf"
       THEN /\ frame' = [frame EXCEPT !.pc = "search", !.drm_count = 0, !.line = 186]
            /\ UNCHANGED heap
       ELSE IF Gt32(Add32(frame.m.drm_offset, frame.m.drm_size), Len(frame.m.rec))
       THEN /\ heap' = heap_free(heap_alloc(heap, "buffer", 0), Len(heap) + 1)
            /\ frame' = [frame EXCEPT !.pc = "search", !.drm_count = 0,
                                      !.buf_obj = Len(heap) + 1, !.line = 191]
       ELSE /\ heap' = heap_alloc(heap, "buffer", 0)
            /\ frame' = [frame EXCEPT
                             !.pc = "parse_entry", !.i = 0,
                             !.buf = buffer_setpos(buffer_init_null(frame.m.rec),
                                                   frame.m.drm_offset),
                             !.buf_obj = Len(heap) + 1, !.line = 194]
    /\ UNCHANGED <<shared, threads>>
    /\ UNCHANGED hvars
    /\ UNCHANGED pkvars
    /\ UNCHANGED fnvars

\* One pass of the for loop of mobi_drm_parse (lines 194-207): drm[i] is
\* allocated and filled from the cursor, or the allocation fails, buf is
\* freed and 0 is returned.  v, s, t, c and k are the reads of
\* verification, size, type, checksum and cookie.
ParseEntry ==
    /\ frame.pc = "parse_entry"
    /\ frame.i < frame.m.drm_count
    /\ IF frame.fail = "parse_entry" /\ frame.i = frame.m.drm_count - 1
       THEN /\ heap' = heap_free(heap, frame.buf_obj)
            /\ frame' = [frame EXCEPT !.pc = "search", !.drm_count = 0, !.i = 0,
                                      !.line = 199]
       ELSE LET Entry(v, s, t, c, k) ==
                    /\ heap' = heap_alloc(heap, "descriptor",
                                          [verification |-> v.val, size |-> s.val,
                                           type |-> t.val, checksum |-> c.val,
                                           cookie |-> k.val])
                    /\ frame' = [frame EXCEPT !.buf = k.buf,
                                              !.entries = Append(@, Len(heap) + 1),
                                              !.i = @ + 1, !.line = 206]
                Cookie(v, s, t, c) ==
                    Entry(v, s, t, c,
                          buffer_getpointer(buffer_seek(c.buf, 3), COOKIESIZE))
                Checksum(v, s, t) == Cookie(v, s, t, buffer_get8(t.buf))
                Type(v, s) == Checksum(v, s, buffer_get32(s.buf))
                Size(v) == Type(v, buffer_get32(v.buf))
            IN  Size(buffer_get32(frame.buf))
    /\ UNCHANGED <<shared, threads>>
    /\ UNCHANGED hvars
    /\ UNCHANGED pkvars
    /\ UNCHANGED fnvars

\* Lines 208-209: the loop is over, buf is freed and count is returned.
ParseLeave ==
    /\ frame.pc = "parse_entry"
    /\ frame.i >= frame.m.drm_count
    /\ heap' = heap_free(heap, frame.buf_obj)
    /\ frame' = [frame EXCEPT !.pc = "search", !.drm_count = frame.m.drm_count,
                              !.i = 0, !.line = 209]
    /\ UNCHANGED <<shared, threads>>
    /\ UNCHANGED hvars
    /\ UNCHANGED pkvars
    /\ UNCHANGED fnvars

\* One pass of the for loop of mobi_drm_getkey_v2 (lines 286-313): drm[i] is
\* read; if its checksum is that of tempkey, or else that of KEYVEC1, its
\* cookie is decrypted, and the loop is left with the status of a failed
\* decryption or with the key of a cookie that verifies.
Search ==
    /\ frame.pc = "search"
    /\ frame.i < frame.drm_count
    /\ LET p == frame.entries[frame.i + 1]
           d == heap[p].val
           Try(c, fails, finds) ==
               IF c.ret # "SUCCESS"
               THEN [frame EXCEPT !.pc = "free", !.ret = c.ret, !.line = fails,
                                  !.stale = @ + heap_stale(heap, p)]
               ELSE IF mobi_drm_verify(d.verification, c.out)
               THEN [frame EXCEPT !.pc = "free", !.ret = "SUCCESS",
                                  !.key = SubSeq(c.out, 9, 8 + KEYSIZE),
                                  !.line = finds,
                                  !.stale = @ + heap_stale(heap, p)]
               ELSE [frame EXCEPT !.i = @ + 1, !.stale = @ + heap_stale(heap, p)]
       IN  frame' =
               IF d.checksum = frame.tempkey_checksum
               THEN Try(mobi_pk1_decrypt(d.cookie, frame.tempkey), 291, 296)
               ELSE IF d.checksum = frame.keyvec1_checksum
               THEN Try(mobi_pk1_decrypt(d.cookie, KEYVEC1), 304, 309)
               ELSE [frame EXCEPT !.i = @ + 1, !.stale = @ + heap_stale(heap, p)]
    /\ UNCHANGED heap
    /\ UNCHANGED <<shared, threads>>
    /\ UNCHANGED hvars
    /\ UNCHANGED pkvars
    /\ UNCHANGED fnvars

\* Line 314: no descriptor gave the key.
SearchLeave ==
    /\ frame.pc = "search"
    /\ frame.i >= frame.drm_count
    /\ frame' = [frame EXCEPT !.pc = "free", !.ret = "DRM_KEYNOTFOUND", !.line = 314]
    /\ UNCHANGED heap
    /\ UNCHANGED <<shared, threads>>
    /\ UNCHANGED hvars
    /\ UNCHANGED pkvars
    /\ UNCHANGED fnvars

\* mobi_drm_free(drm, drm_count) at line 291, 296, 304, 309 or 314, and
\* the return that follows it.
DrmFree ==
    /\ frame.pc = "free"
    /\ heap' = mobi_drm_free(heap, frame.drm, frame.entries, frame.drm_count)
    /\ frame' = [frame EXCEPT !.pc = "return"]
    /\ UNCHANGED <<shared, threads>>
    /\ UNCHANGED hvars
    /\ UNCHANGED pkvars
    /\ UNCHANGED fnvars

NextKeyV2 ==
    \/ GetKeyEnter
    \/ ParseEnter
    \/ ParseEntry
    \/ ParseLeave
    \/ Search
    \/ SearchLeave
    \/ DrmFree

SpecKeyV2 == InitKeyV2 /\ [][NextKeyV2]_vars

(***************************************************************************)
(* Properties of the key holder                                            *)
(***************************************************************************)
\* the document the handle holds
Doc == Books[book]

\* a set_key call that returned anything but SUCCESS
FailedSetKey == op = "set_key" /\ ret # "SUCCESS"

\* C1 as stated: after a set_key call that did not succeed, no key is stored
\* on the handle.
C1_FailedSetKeyNoKey == FailedSetKey => drm_key = NULL

\* C1, amended: a set_key call that does not succeed leaves the key holder
\* as it was before the call: no key if there was none, and the key stored
\* by an earlier successful call if there was one.
C1_FailedSetKeyKeepsHolder == FailedSetKey => drm_key = prev.key

\* a set_key call has failed on a handle that held a key, and holds it still
C1_Witness == FailedSetKey /\ prev.key # NULL /\ drm_key = prev.key

\* C2: decrypt on a handle without a key returns INIT_FAILED and writes
\* nothing; with a key stored it returns what PC1 decryption of the input
\* under that key returns and writes that plaintext, which is as long as the
\* input and encrypts back to it under the same key.
C2_DecryptUsesStoredKey ==
    op = "decrypt" =>
        IF prev.key = NULL
        THEN ret = "INIT_FAILED" /\ out = <<>> /\ drm_key = NULL
        ELSE /\ ret = mobi_pk1_decrypt(in_arg, prev.key).ret
             /\ out = mobi_pk1_decrypt(in_arg, prev.key).out
             /\ drm_key = prev.key
             /\ in_arg # NULL =>
                    /\ ret = "SUCCESS"
                    /\ Len(out) = Len(in_arg)
                    /\ mobi_pk1_encrypt(out, prev.key).out = in_arg

\* decrypt was refused right after a set_key call that failed on a handle
\* without a key
C2_Witness ==
    /\ op = "decrypt" /\ ret = "INIT_FAILED" /\ in_arg # NULL /\ in_arg # <<>>
    /\ prev.op = "set_key" /\ prev.ret # "SUCCESS" /\ prev.key = NULL

\* C3: decrypting, under a key, what encryption under that key produced
\* gives back the original bytes.
C3_DecryptInvertsEncrypt == pk_stage = "decrypted" => pk_back = pk_plain

\* a plaintext of several bytes that encryption changed has come back
C3_Witness ==
    /\ pk_stage = "decrypted"
    /\ Len(pk_plain) = MaxPlainLen
    /\ pk_cipher # pk_plain
    /\ pk_back = pk_plain

\* the calls C4 is about: set_key on a document with encryption_type above
\* 1 and a PID that is absent, not of ten characters, or of ten characters
\* with wrong check characters
C4_NoPid  == pid_arg = NULL
C4_BadLen == pid_arg # NULL /\ Len(pid_arg) # PIDSIZE
C4_BadSum ==
    /\ pid_arg # NULL
    /\ Len(pid_arg) = PIDSIZE
    /\ SubSeq(pid_arg, PIDSIZE - 1, PIDSIZE) # pid_checksum(pid_arg)

\* C4: on a document with encryption_type above 1, set_key with no PID
\* returns INIT_FAILED, and with a PID not of ten characters or with wrong
\* check characters returns DRM_PIDINV; the call returns before any DRM
\* descriptor is visited and leaves the key holder unchanged.
C4_PidChecksBeforeTable ==
    (op = "set_key" /\ Doc.rh /\ Doc.encryption_type > 1) =>
        /\ C4_NoPid  => ret = "INIT_FAILED" /\ line = 434
        /\ C4_BadLen => ret = "DRM_PIDINV" /\ line = 439
        /\ C4_BadSum => ret = "DRM_PIDINV" /\ line = 445
        /\ (C4_NoPid \/ C4_BadLen \/ C4_BadSum) =>
               visited = 0 /\ drm_key = prev.key

\* a ten character PID with wrong check characters was refused on a
\* document whose table holds descriptors, with a key stored
C4_Witness ==
    /\ op = "set_key" /\ Doc.encryption_type > 1 /\ Doc.drm_count > 0
    /\ C4_BadSum /\ ret = "DRM_PIDINV" /\ visited = 0
    /\ prev.key # NULL /\ drm_key = prev.key

\* the PIDs that pass the checks of length and check characters
GoodPids == {PidA, PidB, PidC, PidD}

\* Descriptor i (counted from 1) of a document's DRM table, read from
\* Record 0 as the format lays it out: 48 bytes from drm_offset, with the
\* verification word in bytes 0..3, the key checksum in byte 12 and the
\* cookie in bytes 16..47.
DescriptorAt(doc, i) ==
    LET at == Val32(doc.drm_offset) + 48 * (i - 1)
    IN  [verification |-> SubSeq(doc.rec, at + 1, at + 4),
         checksum     |-> doc.rec[at + 13],
         cookie       |-> SubSeq(doc.rec, at + 17, at + 48)]

\* the cookie of a descriptor decrypted for a PID: under the PID's device
\* key when the descriptor's checksum is that key's, under KEYVEC1 when it
\* is KEYVEC1's, and not at all otherwise
CookieFor(e, pid) ==
    IF e.checksum = SumBytes(DeviceKey(pid), KEYSIZE) % 256
    THEN mobi_pk1_decrypt(e.cookie, DeviceKey(pid)).out
    ELSE IF e.checksum = SumBytes(KEYVEC1, KEYSIZE) % 256
    THEN mobi_pk1_decrypt(e.cookie, KEYVEC1).out
    ELSE <<>>

\* a descriptor is accepted for a PID when its decrypted cookie starts with
\* the descriptor's verification word and has a flag among the low five
Accepted(e, pid) ==
    LET c == CookieFor(e, pid)
    IN  c # <<>> /\ SubSeq(c, 1, 4) = e.verification /\ c[8] % 32 # 0

\* a document whose DRM table can be read: MOBI header present, a table
\* position, at least one descriptor, and the table inside Record 0
TableReadable(doc) ==
    /\ doc.mh
    /\ doc.drm_offset # MOBI_NOTSET
    /\ doc.drm_count > 0
    /\ Val32(doc.drm_offset) + Val32(doc.drm_size) <= Len(doc.rec)
    /\ 48 * doc.drm_count <= Val32(doc.drm_size)

V2Books == {b \in DOMAIN Books : Books[b].rh /\ Books[b].encryption_type > 1}

\* the descriptors of each such document accepted for each good PID
accepted_tab ==
    [b \in V2Books, p \in GoodPids |->
        IF TableReadable(Books[b])
        THEN {i \in 1..Books[b].drm_count : Accepted(DescriptorAt(Books[b], i), p)}
        ELSE {}]

First(S) == CHOOSE i \in S : \A j \in S : i <= j

\* and the key in bytes 8..23 of the cookie of the first of them
first_key_tab ==
    [b \in V2Books, p \in GoodPids |->
        IF accepted_tab[b, p] = {} THEN NULL
        ELSE SubSeq(CookieFor(DescriptorAt(Books[b], First(accepted_tab[b, p])), p),
                    9, 24)]

\* a set_key call with a good PID on a document with encryption_type above 1
V2SetKey == op = "set_key" /\ book \in V2Books /\ pid_arg \in GoodPids

\* C6: with a good PID for which no descriptor of the table is accepted,
\* set_key returns DRM_KEYNOTFOUND and stores no key, provided the
\* descriptor array could be allocated; a later set_key with another PID,
\* for which a descriptor is accepted, succeeds on the same handle.
C6_KeyNotFoundThenRetry ==
    V2SetKey =>
        /\ (accepted_tab[book, pid_arg] = {} /\ fail_arg # "drm_array") =>
               ret = "DRM_KEYNOTFOUND" /\ drm_key = prev.key
        /\ (/\ accepted_tab[book, pid_arg] # {}
            /\ fail_arg = "none"
            /\ prev.op = "set_key" /\ prev.ret = "DRM_KEYNOTFOUND") =>
               ret = "SUCCESS" /\ drm_key # NULL

\* a PID whose only descriptor fails verification was refused on a handle
\* without a key, and the next call, with another PID, stored a key
C6_Witness ==
    /\ V2SetKey /\ ret = "SUCCESS" /\ drm_key # NULL
    /\ prev.op = "set_key" /\ prev.ret = "DRM_KEYNOTFOUND" /\ prev.key = NULL
    /\ prev.pid = PidB /\ pid_arg # PidB
    /\ \E i \in 1..Doc.drm_count :
          /\ CookieFor(DescriptorAt(Doc, i), PidB) # <<>>
          /\ ~Accepted(DescriptorAt(Doc, i), PidB)

\* C7: when descriptors are accepted for the PID, set_key stores the key of
\* the first of them in table order and visits no descriptor after it.
C7_FirstAcceptedWins ==
    (V2SetKey /\ fail_arg = "none" /\ accepted_tab[book, pid_arg] # {}) =>
        /\ ret = "SUCCESS"
        /\ drm_key = first_key_tab[book, pid_arg]
        /\ visited = First(accepted_tab[book, pid_arg])

\* the PID has two accepted descriptors with different keys, after a
\* descriptor that is not accepted, and the key of the earlier one is stored
C7_Witness ==
    /\ V2SetKey /\ ret = "SUCCESS" /\ pid_arg = PidA
    /\ Cardinality(accepted_tab[book, pid_arg]) = 2
    /\ drm_key = BookKeyA1 /\ drm_key # BookKeyA2
    /\ 1 < visited /\ visited < Doc.drm_count

\* where the v1 key is read in Record 0
V1KeyOffset(doc) ==
    IF doc.ph_type = "TEXt" /\ doc.ph_creator = "REAd" THEN 14
    ELSE IF ~doc.mh \/ doc.version = MOBI_NOTSET THEN 144
    ELSE Val32(doc.header_length) + 16

V1Books ==
    {b \in DOMAIN Books : Books[b].rh /\ Books[b].ph /\ Books[b].encryption_type = 1}

\* the 16 bytes there decrypted under KEYVEC1_V1
v1_key_tab ==
    [b \in V1Books |->
        mobi_pk1_decrypt(SubSeq(Books[b].rec, V1KeyOffset(Books[b]) + 1,
                                V1KeyOffset(Books[b]) + 16), KEYVEC1_V1).out]

\* C8: on a document with encryption_type 1, set_key succeeds whatever the
\* PID and stores the 16 bytes read at offset 14, 144 or header_length + 16
\* of Record 0, decrypted under KEYVEC1_V1, provided the key holder could be
\* allocated.
C8_V1KeyFromRecord0 ==
    (op = "set_key" /\ book \in V1Books
        /\ ~(fail_arg = "drm_key" /\ prev.key = NULL)) =>
        ret = "SUCCESS" /\ drm_key = v1_key_tab[book] /\ Len(drm_key) = KEYSIZE

\* a key was stored from offset header_length + 16 with a PID of wrong
\* check characters
C8_Witness ==
    /\ op = "set_key" /\ book \in V1Books /\ ret = "SUCCESS"
    /\ V1KeyOffset(Doc) \notin {14, 144}
    /\ pid_arg # NULL /\ pid_arg \notin GoodPids /\ Len(pid_arg) = PIDSIZE
    /\ drm_key = v1_key_tab[book]

\* C9: delete_key returns SUCCESS and leaves the handle without a key,
\* whether or not a key was stored.
C9_DeleteKeyIdempotent == op = "delete_key" => ret = "SUCCESS" /\ drm_key = NULL

\* delete_key succeeded on a handle that the previous delete_key had left
\* without a key
C9_Witness ==
    /\ op = "delete_key" /\ ret = "SUCCESS" /\ drm_key = NULL
    /\ prev.op = "delete_key" /\ prev.key = NULL

\* C10: set_key with the PID of the successful set_key just before it, on an
\* encrypted document, succeeds again and stores the same 16 bytes in the
\* same holder.
C10_RepeatedSetKey ==
    (/\ op = "set_key" /\ prev.op = "set_key" /\ prev.ret = "SUCCESS"
     /\ prev.pid = pid_arg
     /\ Doc.rh /\ Doc.encryption_type > 0
     /\ fail_arg \in {"none", "drm_key"}) =>
        /\ ret = "SUCCESS" /\ line = 465
        /\ drm_key = prev.key
        /\ Len(drm_key) = KEYSIZE

\* the same good PID was set twice on a document with a DRM table, the
\* second time with no memory left for a new key holder
C10_Witness ==
    /\ V2SetKey /\ prev.op = "set_key" /\ prev.ret = "SUCCESS"
    /\ prev.pid = pid_arg /\ fail_arg = "drm_key"
    /\ ret = "SUCCESS" /\ drm_key = prev.key

\* C13: after any sequence of set_key, delete_key and decrypt calls, a key is
\* stored iff a set_key call on a document with encryption_type >= 1 has
\* returned SUCCESS since the last delete_key call (or since load);
\* delete_key leaves no key; decrypt leaves the key holder as it was.
C13_KeyHolderStateMachine ==
    /\ drm_key # NULL <=> stored_since
    /\ op = "delete_key" => drm_key = NULL
    /\ op = "decrypt" => drm_key = prev.key
    /\ op = "load" => drm_key = NULL

\* a key was stored; then a set_key call failed and decrypt ran, and the
\* key is stored still
C13_Witness ==
    /\ op = "decrypt" /\ ret = "SUCCESS" /\ drm_key # NULL /\ stored_since
    /\ prev.op = "set_key" /\ prev.ret # "SUCCESS"

\* C14 as stated: set_key returns DATA_CORRUPT and leaves the key holder as
\* it was when encryption_type is 1 and the PalmDOC header is absent, and
\* also whenever Record 0 is missing, for encryption_type 1 and for
\* encryption_type >= 2 (given there a PID that passes the PID checks, and
\* no allocation failure).
C14_DataCorrupt ==
    (/\ op = "set_key" /\ Doc.rh /\ fail_arg = "none"
     /\ \/ Doc.encryption_type = 1 /\ (~Doc.ph \/ Doc.rec = NULL)
        \/ Doc.encryption_type >= 2 /\ Doc.rec = NULL /\ pid_arg \in GoodPids) =>
        ret = "DATA_CORRUPT" /\ drm_key = prev.key

\* a descriptor for any device: its checksum is that of KEYVEC1 and its
\* cookie, decrypted under KEYVEC1, starts with the descriptor's
\* verification word and has a flag among the low five
Neutral(e) ==
    LET c == mobi_pk1_decrypt(e.cookie, KEYVEC1).out
    IN  /\ e.checksum = SumBytes(KEYVEC1, KEYSIZE) % 256
        /\ SubSeq(c, 1, 4) = e.verification /\ c[8] % 32 # 0

\* the descriptors for any device of each document with a table
neutral_tab ==
    [b \in V2Books |->
        IF TableReadable(Books[b])
        THEN {i \in 1..Books[b].drm_count : Neutral(DescriptorAt(Books[b], i))}
        ELSE {}]

\* and the key in bytes 8..23 of the cookie of the first of them
neutral_key_tab ==
    [b \in V2Books |->
        IF neutral_tab[b] = {} THEN NULL
        ELSE SubSeq(mobi_pk1_decrypt(
                        DescriptorAt(Books[b], First(neutral_tab[b])).cookie,
                        KEYVEC1).out, 9, 24)]

\* C15 as stated: when the first acceptable descriptor of the table is one
\* for any device, set_key returns SUCCESS and stores that descriptor's
\* book key for every PID that passes the PID checks, a PID whose temp key
\* has the key checksum of KEYVEC1 included.
C15_NeutralCookieIgnoresPid ==
    (/\ V2SetKey /\ fail_arg = "none"
     /\ neutral_tab[book] # {}
     /\ \A j \in accepted_tab[book, pid_arg] : j >= First(neutral_tab[book])) =>
        ret = "SUCCESS" /\ drm_key = neutral_key_tab[book]

(***************************************************************************)
(* Properties of single calls                                              *)
(***************************************************************************)
\* "ABCDEFGHIJKLMNPQRSTUVWXYZ123456789": A to N, P to Z, 1 to 9
C11_Alphabet ==
    [i \in 1..34 |-> IF i <= 14 THEN 64 + i ELSE IF i <= 25 THEN 65 + i ELSE 23 + i]

\* the character at ((b / n) XOR (b % n)) mod n of the alphabet
C11_Char(b, n) == C11_Alphabet[((Xor8(b \div n, b % n)) % n) + 1]

\* the two bytes of the folded CRC of the call
C11_Bytes == <<result.crc % 256, result.crc \div 256>>

\* C11 as stated: the two checksum characters are computed with 33 as the
\* divisor and modulus, and the PID is valid iff they are its last two
\* characters.
C11_PidChecksum33 ==
    result.fn = "mobi_drm_pidverify" =>
        LET computed == <<C11_Char(C11_Bytes[1], 33), C11_Char(C11_Bytes[2], 33)>>
        IN  /\ result.checksum = computed
            /\ result.ret = "SUCCESS" <=> computed = SubSeq(call.pid, 9, 10)

\* C11, amended: the alphabet has 34 characters and the two checksum
\* characters are ALPHABET[((b / 34) XOR (b % 34)) mod 34] for the two low
\* bytes b of the folded CRC; the PID check returns SUCCESS iff they are
\* pid[8] and pid[9] and DRM_PIDINV otherwise; the character computed from
\* any byte lies in the alphabet.
C11_PidChecksum34 ==
    result.fn = "mobi_drm_pidverify" =>
        LET computed == <<C11_Char(C11_Bytes[1], 34), C11_Char(C11_Bytes[2], 34)>>
        IN  /\ Len(pid_map) = 34 /\ pid_map = C11_Alphabet
            /\ result.checksum = computed
            /\ result.ret = IF computed = SubSeq(call.pid, 9, 10)
                            THEN "SUCCESS" ELSE "DRM_PIDINV"
            /\ \A b \in 0..255 :
                   /\ pid_char(b) = C11_Char(b, 34)
                   /\ \E i \in 1..34 : pid_char(b) = C11_Alphabet[i]

\* a PID was accepted whose second checksum character comes from a byte
\* for which dividing by 33 gives another character
C11_Witness ==
    /\ result.fn = "mobi_drm_pidverify" /\ result.ret = "SUCCESS"
    /\ C11_Bytes[2] >= 34
    /\ C11_Char(C11_Bytes[2], 34) # C11_Char(C11_Bytes[2], 33)
    /\ call.pid[10] = C11_Char(C11_Bytes[2], 34)

\* a call of the cipher has returned
CipherCall == result.fn \in {"mobi_pk1_encrypt", "mobi_pk1_decrypt"}

\* the bytes a call's memory holds at len addresses from at
Bytes(mem, at, len) == SubSeq(mem, at + 1, at + len)

\* C12: after mobi_pk1_encrypt or mobi_pk1_decrypt, whatever the input and
\* its length, the 16 bytes at the key address passed in are what they were
\* before the call.
C12_KeyNotMutated ==
    CipherCall =>
        /\ result.ret = "SUCCESS"
        /\ Bytes(result.mem, call.key, KEYSIZE) = Bytes(call.mem, call.key, KEYSIZE)

\* a decryption of the longest input under the key of a device wrote bytes
\* that are not all zero, so that the working key was folded, and the key
\* passed in is as before
C12_Witness ==
    /\ result.fn = "mobi_pk1_decrypt" /\ call.length = MaxMemLen
    /\ Bytes(call.mem, call.key, KEYSIZE) = DeviceKey(PidA)
    /\ \E a \in 1..call.length : result.mem[call.out + a] # 0
    /\ Bytes(result.mem, call.key, KEYSIZE) = DeviceKey(PidA)

\* a + b > n for the numbers two uint32_t a and b stand for, without
\* wraparound: the sum is hi * 2^16 + lo
SumExceeds(a, b, n) ==
    LET lo == (a[2] + b[2]) % W16
        hi == a[1] + b[1] + ((a[2] + b[2]) \div W16)
    IN  hi > n \div W16 \/ (hi = n \div W16 /\ lo > n % W16)

\* C16 as stated: whatever the 32-bit drm_offset and drm_size and the size of
\* Record 0, the parser yields zero entries when drm_offset + drm_size, as
\* a sum of numbers, exceeds the size of Record 0, also when the 32-bit sum
\* wraps around; and when drm_offset is 0xFFFFFFFF or drm_count is 0.
C16_TableBoundsGuard ==
    (/\ result.fn = "mobi_drm_parse"
     /\ \/ SumExceeds(call.m.drm_offset, call.m.drm_size, Len(call.m.rec))
        \/ call.m.drm_offset = MOBI_NOTSET
        \/ call.m.drm_count = 0) => result.count = 0

\* the n bytes from position a + d, for a uint32_t a, end within the first
\* len bytes
EndsWithin(a, d, n, len) == a[1] = 0 /\ a[2] + d + n <= len

\* a >= n for a uint32_t a and a number n below 2^16
AtLeast(a, n) == a[1] > 0 \/ a[2] >= n

\* C17 as stated: when the parser yields entries, the 48 bytes of each of
\* them, at drm_offset + 48 * i for i below the number yielded, lie within
\* Record 0 and within the drm_size bytes of the table, and so does the
\* cookie, which is the bytes themselves at position 16 of the entry.
C17_DescriptorsWithinRecord0 ==
    (result.fn = "mobi_drm_parse" /\ result.count > 0) =>
        \A i \in 0..(result.count - 1) :
            /\ EndsWithin(call.m.drm_offset, 48 * i, 48, Len(call.m.rec))
            /\ AtLeast(call.m.drm_size, 48 * (i + 1))
            /\ result.drm[i + 1].cookie =
                   SubSeq(call.m.rec, call.m.drm_offset[2] + 48 * i + 17,
                          call.m.drm_offset[2] + 48 * i + 48)

\* the four bytes of a uint32_t, most significant first
BigEndian(a) == <<a[1] \div 256, a[1] % 256, a[2] \div 256, a[2] % 256>>

\* C18: the cookie is accepted iff its bytes 0..3 are the descriptor's
\* verification word, most significant byte first, and one of the low five
\* bits of the word in its bytes 4..7 is set; the bytes from 8 on do not
\* matter.
C18_CookieVerification ==
    result.fn = "mobi_drm_verify" =>
        /\ result.ret =
               (/\ SubSeq(call.cookie, 1, 4) = BigEndian(call.drm_verification)
                /\ call.cookie[8] % 32 # 0)
        /\ \A t \in CookieTails :
               mobi_drm_verify(call.drm_verification, SubSeq(call.cookie, 1, 8) \o t)
                   = result.ret

\* a cookie with a key and an expiry was accepted on a flag other than the
\* lowest, and the same cookie is refused without it
C18_Witness ==
    /\ result.fn = "mobi_drm_verify" /\ result.ret
    /\ call.cookie[8] % 32 = 16
    /\ SubSeq(call.cookie, 9, 24) = BookKeyA1
    /\ ~mobi_drm_verify(call.drm_verification,
                        SubSeq(call.cookie, 1, 7) \o <<32>> \o SubSeq(call.cookie, 9, 32))

\* the sum of the 16 bytes of a key
KeySum(k) ==
    k[1] + k[2] + k[3] + k[4] + k[5] + k[6] + k[7] + k[8]
    + k[9] + k[10] + k[11] + k[12] + k[13] + k[14] + k[15] + k[16]

\* C19 as stated: the key checksum is the sum of the 16 key bytes modulo
\* 256, and that of KEYVEC1 is 0xDA.
C19_KeyChecksumDA ==
    result.fn = "mobi_drm_keychecksum" =>
        /\ result.ret = KeySum(call.key) % 256
        /\ call.key = KEYVEC1 => result.ret = 218

\* C19, amended: the key checksum is the sum of the 16 key bytes modulo 256,
\* and that of KEYVEC1, whose bytes sum to 2358, is 0x36.
C19_KeyChecksum36 ==
    result.fn = "mobi_drm_keychecksum" =>
        /\ result.ret = KeySum(call.key) % 256
        /\ result.ret \in 0..255
        /\ call.key = KEYVEC1 => KeySum(call.key) = 2358 /\ result.ret = 54

\* the checksum of KEYVEC1 was computed
C19_Witness ==
    /\ result.fn = "mobi_drm_keychecksum" /\ call.key = KEYVEC1
    /\ KeySum(call.key) > 255 /\ result.ret = 54

\* the call with the same key and input and the output apart from the input
Apart ==
    Pk1Call(call.fn, Bytes(call.mem, call.key, KEYSIZE),
            Bytes(call.mem, call.in, call.length), FALSE)

\* the bytes a call of the cipher writes
Written(c) ==
    IF c.fn = "mobi_pk1_encrypt"
    THEN Bytes(mobi_pk1_encrypt_mem(c.mem, c.out, c.in, c.length, c.key).mem,
               c.out, c.length)
    ELSE Bytes(mobi_pk1_decrypt_mem(c.mem, c.out, c.in, c.length, c.key).mem,
               c.out, c.length)

\* C20: mobi_pk1_decrypt and mobi_pk1_encrypt with the output buffer the
\* input buffer write the bytes they write, for the same key and input,
\* with the output buffer apart from the input.
C20_InPlaceSafe ==
    (CipherCall /\ call.out = call.in) =>
        /\ Apart.out # Apart.in \/ call.length = 0
        /\ Bytes(result.mem, call.out, call.length) = Written(Apart)

\* an encryption of the longest input over itself changed every byte of it
C20_Witness ==
    /\ result.fn = "mobi_pk1_encrypt" /\ call.out = call.in
    /\ call.length = MaxMemLen
    /\ \A a \in 1..call.length : result.mem[call.out + a] # call.mem[call.in + a]
    /\ Bytes(result.mem, call.out, call.length) = Written(Apart)

\* the spec's code(state, i), each line of the pseudo-code in turn: state is
\* [si, x1a2, x1a0], and the result is the state left and the value returned
C24_Code(state, i) ==
    LET dx_0 == state.x1a2 + i
        ax_0 == state.x1a0[i + 1]
        cx_0 == 346
        bx   == 20021
        \* swap(ax, state.si)
        ax_1 == state.si
        si_1 == ax_0
        \* swap(ax, dx)
        ax_2 == dx_0 % W16
        dx_2 == ax_1
        \* if ax != 0: ax = ax * bx
        ax_3 == IF ax_2 # 0 THEN (ax_2 * bx) % W16 ELSE ax_2
        \* swap(ax, cx)
        ax_4 == cx_0
        cx_4 == ax_3
        \* if ax != 0: ax = ax * state.si; cx = cx + ax
        ax_5 == IF ax_4 # 0 THEN (ax_4 * si_1) % W16 ELSE ax_4
        cx_5 == IF ax_4 # 0 THEN (cx_4 + ax_5) % W16 ELSE cx_4
        \* swap(ax, state.si)
        ax_6 == si_1
        si_6 == ax_5
        ax_7 == (ax_6 * bx) % W16
        dx_7 == (dx_2 + cx_5) % W16
        ax_8 == (ax_7 + 1) % W16
    IN  [state |-> [si |-> si_6, x1a2 |-> dx_7,
                    x1a0 |-> [state.x1a0 EXCEPT ![i + 1] = ax_8]],
         val |-> XorBits(ax_8, dx_7)]

\* C24: for every PC1 state and every i in 0..7, pk1_code leaves si, x1a2
\* and x1a0[i] in 0..65535, changes no other word of the state, returns the
\* value the spec's mod-2^16 pseudo-code returns and leaves the state it
\* leaves, and none of its products and sums, taken as a full-width integer
\* before truncation to 16 bits, exceeds 2^31 - 1.
C24_SixteenBitArithmetic ==
    result.fn = "pk1_code" =>
        /\ result.pk1.si \in 0..65535
        /\ result.pk1.x1a2 \in 0..65535
        /\ result.pk1.x1a0[call.i + 1] \in 0..65535
        /\ \A k \in 1..8 : k # call.i + 1 => result.pk1.x1a0[k] = call.pk1.x1a0[k]
        /\ result.val \in 0..65535
        /\ result.val = C24_Code(call.pk1, call.i).val
        /\ result.pk1 = C24_Code(call.pk1, call.i).state
        /\ \A k \in DOMAIN result.wide :
               result.wide[k] >= 0 /\ result.wide[k] <= 2147483647

\* pk1_code has run on a state whose x1a2 + i, both products ax * bx and
\* ax + 1 all pass 65535 before truncation: x1a2 = 0xffff with i = 7, and
\* x1a0[7] = 60387, which ax + 1 leaves at 0
C24_Witness ==
    /\ result.fn = "pk1_code"
    /\ call.i = 7
    /\ call.pk1.x1a2 = 65535
    /\ call.pk1.x1a0[8] = 60387
    /\ call.pk1.si = 65535
    /\ result.wide[1] > 65535
    /\ result.wide[2] > 65535
    /\ result.wide[5] > 65535
    /\ result.wide[7] = 65536
    /\ result.pk1.x1a0[8] = 0

\* C22: for every key and every n <= length, mobi_pk1_decrypt (resp.
\* mobi_pk1_encrypt) on the first n input bytes alone writes exactly the
\* first n bytes of what it writes on the whole input: output byte i is a
\* function of the key and of input bytes 0..i only.
C22_PrefixProperty ==
    result.fn \in {"encrypt_prefix", "decrypt_prefix"} =>
        /\ Len(result.whole) = Len(call.in)
        /\ Len(result.part) = call.n
        /\ result.part = SubSeq(result.whole, 1, call.n)

\* mobi_pk1_decrypt has run on three bytes and on the first two of them,
\* and the two bytes changed on the way
C22_Witness ==
    /\ result.fn = "decrypt_prefix"
    /\ Len(call.in) = 3
    /\ call.n = 2
    /\ call.in[3] # call.in[2]
    /\ result.part # SubSeq(call.in, 1, 2)
    /\ result.part = SubSeq(result.whole, 1, 2)

(***************************************************************************)
(* Properties of concurrent calls                                          *)
(***************************************************************************)
\* the bytes call t has written so far are the first bytes of what it
\* writes when it runs alone
WrittenSoFar(t) ==
    LET n == threads[t].args.length - threads[t].length
    IN  Bytes(shared, threads[t].args.out, n) = SubSeq(threads[t].alone, 1, n)

\* C21: in any interleaving of the byte steps of two concurrent
\* mobi_pk1_decrypt calls with distinct output buffers, on the same stored
\* key or on different keys, each call starts from a zeroed PC1 state and
\* its own copy of the key, and the output of each call equals the output
\* it produces when run alone (at every step, as far as it has got); the
\* keys are left as they were.
C21_ConcurrentCallsIndependent ==
    /\ \A t \in DOMAIN threads :
           /\ WrittenSoFar(t)
           /\ threads[t].pc = "done" =>
                  /\ threads[t].ret = "SUCCESS"
                  /\ Bytes(shared, threads[t].args.out, threads[t].args.length)
                         = threads[t].alone
    /\ threads # <<>> => Bytes(shared, 0, 2 * KEYSIZE) = BookKeyA1 \o KEYVEC1

\* both calls use the key stored at address 0 and each has decrypted one
\* byte of two, the two inputs being different
C21_Witness ==
    /\ threads # <<>>
    /\ \A t \in {1, 2} :
           /\ threads[t].pc = "loop"
           /\ threads[t].args.key = 0
           /\ threads[t].args.length = 2
           /\ threads[t].length = 1
    /\ threads[1].key_copy # threads[2].key_copy
    /\ threads[1].alone # threads[2].alone

(***************************************************************************)
(* Properties of key recovery by steps                                     *)
(***************************************************************************)
\* C23: on every return path of v2 key recovery, every descriptor object
\* allocated by the DRM table parser and the descriptor pointer array have
\* been freed exactly once, and no descriptor is read after it is freed.
C23_DescriptorLifetime ==
    frame.pc = "return" =>
        /\ \A p \in DOMAIN heap :
               heap[p].kind \in {"descriptor", "array"} => heap[p].frees = 1
        /\ frame.stale = 0

(***************************************************************************)
(* Properties of single calls on a handle                                  *)
(***************************************************************************)
\* C5: on a document with encryption_type 0, set_key returns SUCCESS
\* whatever the PID (absent, of any length, of wrong check characters),
\* visits no descriptor, and leaves the key holder as it was: a previously
\* stored key keeps its value, and an empty holder stays empty.
C5_PlainDocumentNoOp ==
    (/\ result.fn = "mobi_drm_setkey_internal"
     /\ Books[call.book].rh
     /\ Books[call.book].encryption_type = 0) =>
        /\ result.ret = "SUCCESS"
        /\ result.line = 429
        /\ result.visited = 0
        /\ result.drm_key = call.drm_key

\* set_key with a PID of wrong check characters has returned on an
\* unencrypted document whose handle held a key, and the key is still there
C5_Witness ==
    /\ result.fn = "mobi_drm_setkey_internal"
    /\ Books[call.book].rh /\ Books[call.book].encryption_type = 0
    /\ call.drm_key = BookKeyA1
    /\ call.pid # NULL /\ Len(call.pid) = PIDSIZE
    /\ SubSeq(call.pid, PIDSIZE - 1, PIDSIZE) # pid_checksum(call.pid)
    /\ result.ret = "SUCCESS"
    /\ result.drm_key = BookKeyA1

====
